---------------------------- MODULE Spec2Model ----------------------------
(***************************************************************************)
(* Model of the Ingres metadata writer of usql                             *)
(* (src/drivers/ingres/ingres.go): the pattern parser and the describe     *)
(* commands of IngresWriter, each command one atomic action.               *)
(*                                                                         *)
(* A string is a sequence of symbols.  Pattern text is spelled symbol by   *)
(* symbol (<<"a", ".", "*">> is "a.*"); a name that only ever travels as a *)
(* whole (a schema or object name of a catalog row) is a one-symbol        *)
(* sequence.  The empty string is << >>.                                   *)
(***************************************************************************)
EXTENDS Integers, Sequences, FiniteSets, TLC

VARIABLES
    caps,           \* the capability interfaces the reader w.r implements
    systemSchemas,  \* w.systemSchemas
    listAllDbs,     \* TRUE iff w.listAllDbs is non-nil (WithListAllDbs was given)
    call,           \* the command being run and its arguments
    queries,        \* the reader queries issued by the command, in order
    out,            \* what the command wrote to w.w, in order
    ret,            \* the value the command returned
    found,          \* DescribeTableDetails' local counter at its return
    parsed,         \* the triple returned by parsePattern
    defaultWriter,  \* the db and w fields of the IngresWriter NewIngresWriter allocated
    writers,        \* the Writers the function NewIngresWriter returned has handed out
    sinks           \* what each io.Writer has received, and from which Writer

vars == <<caps, systemSchemas, listAllDbs, call, queries, out, ret, found, parsed,
          defaultWriter, writers, sinks>>

\* The variables of the Writers handed out.
wvars == <<defaultWriter, writers, sinks>>

(***************************************************************************)
(* Strings                                                                 *)
(***************************************************************************)

\* Bound on the length of the patterns handed to parsePattern on its own.
MaxPatLen == 5

\* The symbols patterns are spelled with: a letter, the separator, the
\* wildcard, and the engine's wildcard (which may occur in the input too).
PatChars == {"a", ".", "*", "%"}

RECURSIVE SeqsUpTo(_, _)
SeqsUpTo(S, n) ==
    IF n = 0 THEN {<< >>}
    ELSE LET shorter == SeqsUpTo(S, n - 1)
         IN  shorter \cup {Append(s, c) : s \in {t \in shorter : Len(t) = n - 1}, c \in S}

\* strings.ContainsRune(s, r)
ContainsRune(s, r) == \E i \in DOMAIN s : s[i] = r

\* strings.Index(s, sep) for a one-symbol separator, 1-based; 0 if absent.
RECURSIVE IndexFrom(_, _, _)
IndexFrom(s, sep, i) ==
    IF i > Len(s) THEN 0
    ELSE IF s[i] = sep THEN i
    ELSE IndexFrom(s, sep, i + 1)

\* A split at the last separator instead of the first.
RECURSIVE LastIndexFrom(_, _, _)
LastIndexFrom(s, sep, i) ==
    IF i < 1 THEN 0
    ELSE IF s[i] = sep THEN i
    ELSE LastIndexFrom(s, sep, i - 1)

SplitAtLast(s, sep) ==
    LET i == LastIndexFrom(s, sep, Len(s))
    IN  IF i = 0 THEN <<s>>
        ELSE <<SubSeq(s, 1, i - 1), SubSeq(s, i + 1, Len(s))>>

\* strings.SplitN(s, sep, 2): at most two parts, split at the first separator.
SplitN2(s, sep) ==
    LET i == IndexFrom(s, sep, 1)
    IN  IF i = 0 THEN <<s>>
        ELSE <<SubSeq(s, 1, i - 1), SubSeq(s, i + 1, Len(s))>>

\* strings.Replace(s, old, new, 1): only the first occurrence is replaced.
ReplaceFirst(s, old, new) ==
    LET i == IndexFrom(s, old, 1)
    IN  [j \in DOMAIN s |-> IF j = i THEN new ELSE s[j]]

\* strings.ReplaceAll(s, old, new) for one-symbol old and new.
ReplaceAll(s, old, new) ==
    [j \in DOMAIN s |-> IF s[j] = old THEN new ELSE s[j]]

\* parsePattern: (schema fragment, name fragment, error)
parsePattern(pattern) ==
    IF ContainsRune(pattern, ".")
    THEN LET parts == SplitN2(pattern, ".")
         IN  <<ReplaceAll(parts[1], "*", "%"), ReplaceAll(parts[2], "*", "%"), "nil">>
    ELSE <<<< >>, ReplaceAll(pattern, "*", "%"), "nil">>

(***************************************************************************)
(* The pattern parser on its own                                           *)
(***************************************************************************)

NoCall == [cmd |-> "none", pattern |-> << >>, showSystem |-> FALSE,
           verbose |-> FALSE, types |-> << >>, k |-> 0, source |-> {}]

NotParsed == <<"-">>

\* No command has returned yet.
NoRet == <<"none">>

\* The io.Writers a Writer may be given, and the databases.
Sinks == {"w1", "w2"}

Dbs == {"db1", "db2"}

\* "defaultWriter := &IngresWriter{r: r, ...}": db and w are not set, and the
\* function returned has not been called.
NoWriters ==
    /\ defaultWriter = [db |-> "nil", w |-> "nil"]
    /\ writers = << >>
    /\ sinks = [s \in Sinks |-> << >>]

InitPattern ==
    /\ caps = {}
    /\ systemSchemas = {}
    /\ listAllDbs = FALSE
    /\ \E p \in SeqsUpTo(PatChars, MaxPatLen) :
          call = [NoCall EXCEPT !.cmd = "parsePattern", !.pattern = p]
    /\ queries = << >>
    /\ out = << >>
    /\ ret = NoRet
    /\ found = 0
    /\ parsed = NotParsed
    /\ NoWriters

ParsePattern ==
    /\ call.cmd = "parsePattern"
    /\ parsed = NotParsed
    /\ parsed' = parsePattern(call.pattern)
    /\ UNCHANGED <<caps, systemSchemas, listAllDbs, call, queries, out, ret, found>>
    /\ UNCHANGED wvars

NextPattern == ParsePattern

SpecPattern == InitPattern /\ [][NextPattern]_vars

(***************************************************************************)
(* The capability reader, as the Writer sees it                            *)
(***************************************************************************)

\* The optional interfaces of package metadata the Writer asserts on w.r.
AllCaps ==
    {"SchemaReader", "TableReader", "ColumnReader", "IndexReader",
     "IndexColumnReader", "ConstraintReader", "ConstraintColumnReader",
     "SequenceReader", "TriggerReader", "FunctionReader",
     "FunctionColumnReader", "ColumnStatReader", "PrivilegeSummaryReader",
     "CatalogReader"}

\* Bound on the number of rows of one listing response of the reader.
MaxRows == 2

InformationSchema == <<"information_schema">>
Public == <<"public">>

\* md.Filter
EmptyFilter ==
    [Catalog |-> << >>, Schema |-> << >>, Parent |-> << >>, Reference |-> << >>,
     Name |-> << >>, Types |-> << >>, WithSystem |-> FALSE]

\* The rows a reader may answer a listing query with.  Within one ResultSet
\* rows are unique by their natural key.
SchemaRows == {[Schema |-> InformationSchema], [Schema |-> Public]}

TableRows ==
    {[Schema |-> InformationSchema, Name |-> <<"tables">>, Type |-> "SYSTEM VIEW", Rows |-> 0],
     [Schema |-> Public, Name |-> <<"t1">>, Type |-> "TABLE", Rows |-> 100],
     [Schema |-> Public, Name |-> <<"t2">>, Type |-> "VIEW", Rows |-> 4]}

IndexRows ==
    {[Catalog |-> << >>, Schema |-> InformationSchema, Table |-> <<"tables">>,
      Name |-> <<"i0">>, Type |-> "btree", IsPrimary |-> "NO", IsUnique |-> "NO"],
     [Catalog |-> << >>, Schema |-> Public, Table |-> <<"t1">>,
      Name |-> <<"i1">>, Type |-> "btree", IsPrimary |-> "YES", IsUnique |-> "YES"]}

CatalogRows == {[Catalog |-> <<"db1">>], [Catalog |-> <<"db2">>]}

PrivilegeSummaryRows ==
    {[Schema |-> InformationSchema, Name |-> <<"tables">>, ObjectType |-> "VIEW"],
     [Schema |-> Public, Name |-> <<"t1">>, ObjectType |-> "TABLE"]}

\* topNValues and topNFrequencies are parallel lists; a frequency is counted
\* in ten-thousandths.
ColumnStatRows ==
    {[Schema |-> InformationSchema, Table |-> <<"tables">>, Name |-> <<"c0">>,
      NumDistinct |-> 7, TopN |-> << >>, TopNFreqs |-> << >>],
     [Schema |-> Public, Table |-> <<"t1">>, Name |-> <<"c1">>,
      NumDistinct |-> 25, TopN |-> <<"x", "y", "z">>, TopNFreqs |-> <<5000, 2500, 1250>>],
     [Schema |-> Public, Table |-> <<"t2">>, Name |-> <<"c1">>,
      NumDistinct |-> 4, TopN |-> <<"x">>, TopNFreqs |-> <<10000>>]}

FunctionRows ==
    {[Catalog |-> << >>, Schema |-> InformationSchema, Name |-> <<"f0">>,
      SpecificName |-> <<"f0_1">>, Type |-> "FUNCTION", ArgTypes |-> << >>],
     [Catalog |-> << >>, Schema |-> Public, Name |-> <<"f1">>,
      SpecificName |-> <<"f1_1">>, Type |-> "PROCEDURE", ArgTypes |-> << >>]}

\* What FunctionColumns answers for a function: f1_1 has a result row
\* (ordinal 0) and three parameters, f0_1 one unnamed IN parameter.
FunctionColumnsOf(specificName) ==
    IF specificName = <<"f1_1">>
    THEN <<[OrdinalPosition |-> 0, Type |-> "", Name |-> "", DataType |-> "int"],
           [OrdinalPosition |-> 1, Type |-> "IN", Name |-> "a", DataType |-> "int"],
           [OrdinalPosition |-> 2, Type |-> "OUT", Name |-> "b", DataType |-> "text"],
           [OrdinalPosition |-> 3, Type |-> "", Name |-> "", DataType |-> "date"]>>
    ELSE <<[OrdinalPosition |-> 1, Type |-> "IN", Name |-> "", DataType |-> "int"]>>

SequenceRows == {[Schema |-> Public, Name |-> <<"q1">>]}

\* What the reader answers for the objects of one table or index: only t1
\* has an index, constraints that pass the Writer's filters, an incoming
\* foreign key and a trigger; only i1 has index columns.
ColumnsOf(schema, table) ==
    IF table = <<"t1">>
    THEN <<[Name |-> <<"c1">>, DataType |-> "int"], [Name |-> <<"c2">>, DataType |-> "text"]>>
    ELSE <<[Name |-> <<"c1">>, DataType |-> "int"]>>

TableIndexesOf(schema, table) ==
    IF table = <<"t1">>
    THEN <<[Catalog |-> << >>, Schema |-> Public, Table |-> <<"t1">>,
            Name |-> <<"i1">>, Type |-> "btree", IsPrimary |-> "YES", IsUnique |-> "YES"]>>
    ELSE << >>

IndexColumnsOf(index) ==
    IF index = <<"i1">> THEN <<[Name |-> <<"c1">>, DataType |-> "int"]>> ELSE << >>

Constraint(table, name, type, clause, foreignTable) ==
    [Catalog |-> << >>, Schema |-> Public, Table |-> table, Name |-> name, Type |-> type,
     CheckClause |-> clause, ForeignTable |-> foreignTable,
     UpdateRule |-> "NO ACTION", DeleteRule |-> "CASCADE"]

ConstraintsOf(schema, table) ==
    IF table = <<"t1">>
    THEN <<Constraint(<<"t1">>, <<"nn1">>, "CHECK", <<"c1", " IS NOT NULL">>, << >>),
           Constraint(<<"t1">>, <<"chk1">>, "CHECK", <<"c1 > 0">>, << >>),
           Constraint(<<"t1">>, <<"fk1">>, "FOREIGN KEY", << >>, <<"t2">>)>>
    ELSE IF table = <<"t2">>
    THEN <<Constraint(<<"t2">>, <<"nn2">>, "CHECK", <<"c1", " IS NOT NULL">>, << >>),
           Constraint(<<"t2">>, <<"pk2">>, "PRIMARY KEY", << >>, << >>)>>
    ELSE << >>

ReferencingOf(schema, table) ==
    IF table = <<"t1">>
    THEN <<Constraint(<<"t2">>, <<"fk2">>, "FOREIGN KEY", << >>, <<"t1">>)>>
    ELSE << >>

ConstraintColumnsOf(constraint) == <<[Name |-> <<"c1">>, ForeignName |-> <<"id">>]>>

TriggersOf(schema, table) ==
    IF table = <<"t1">> THEN <<[Name |-> <<"trg1">>, Definition |-> "AFTER INSERT"]>> ELSE << >>

NoDup(s) == \A i, j \in DOMAIN s : i # j => s[i] # s[j]

RowSeqs(U) == {s \in SeqsUpTo(U, MaxRows) : NoDup(s)}

\* What one reader call returns: rows and a nil error, or no ResultSet and an
\* error, which is text.ErrNotSupported ("ns") or any other error ("err").
Responses(U) ==
    {[err |-> "nil", rows |-> r] : r \in RowSeqs(U)}
        \cup {[err |-> e, rows |-> << >>] : e \in {"err", "ns"}}

\* What Schemas answers for a source that holds the given schemas: an error,
\* or each schema of the source once; a reader asked to leave the system
\* schemas out may leave out those it takes for system schemas.
SchemasAnswers(source, withSystem) ==
    {resp \in Responses(source) :
        resp.err = "nil" /\ withSystem => {resp.rows[i] : i \in DOMAIN resp.rows} = source}

\* The external encoder either renders the ResultSet or fails.
EncOutcomes == {"nil", "err"}

\* One entry of the trace of reader calls: the method, the Writer function
\* that called it, the Filter it was given and what the reader answered.
\* closed says whether the function that opened the ResultSet closes it
\* (there is no ResultSet to close when the reader returned an error).
Query(reader, by, filter, resp, closes) ==
    [reader |-> reader, by |-> by, filter |-> filter, err |-> resp.err,
     rows |-> resp.rows, closed |-> (closes /\ resp.err = "nil")]

\* A reader taken to implement every interface.
ImplementsAny(cp, iface) == TRUE

\* The type assertion "r, ok := w.r.(md.X)": ok says whether the reader
\* implements the interface.
Implements(cp, iface) == iface \in cp

\* The one element of a singleton: S is {e}, and e is computed once.
Only(S) == CHOOSE x \in S : TRUE

RECURSIVE Flatten(_)
Flatten(ss) == IF ss = << >> THEN << >> ELSE Head(ss) \o Flatten(Tail(ss))

Minimum(S) == CHOOSE x \in S : \A y \in S : x <= y

\* An error value is the chain of its messages, outermost first; nil is the
\* empty chain.  A reader's error ends the chain: "ns" is
\* text.ErrNotSupported, "err" any other error.
Nil == << >>

\* fmt.Errorf(msg + ": %w", err)
Wrap(msg, err) == <<msg>> \o err

\* A run-time panic unwinds through every caller unchanged.
Panic == <<"panic">>

\* fmt.Errorf around an error; a panic is not an error value and passes.
WrapErr(msg, e) == IF e = Panic THEN Panic ELSE Wrap(msg, e)

(***************************************************************************)
(* ResultSet: SetFilter, Next and Len                                      *)
(***************************************************************************)

NoFilter == [kind |-> "none", schemas |-> {}]

\* The predicate the commands hand to SetFilter: the row's schema is not in
\* w.systemSchemas.
NotSystemSchema(sys) == [kind |-> "notSystem", schemas |-> sys]

\* A predicate applied to one row.
\* strings.HasSuffix, the suffix being one symbol.
HasSuffix(str, suffix) == Len(str) > 0 /\ str[Len(str)] = suffix

\* The constraint filters of tableDetailsSummary.
CheckFilter == [kind |-> "check", schemas |-> {}]
\* A post-filter that lets every constraint pass.
KeepEveryConstraint == [kind |-> "none", schemas |-> {}]

ForeignKeyFilter == [kind |-> "foreignKey", schemas |-> {}]

Passes(flt, row) ==
    CASE flt.kind = "none" -> TRUE
      [] flt.kind = "notSystem" -> row.Schema \notin flt.schemas
      [] flt.kind = "check" ->
            /\ row.Type = "CHECK"
            /\ row.CheckClause # << >>
            /\ ~HasSuffix(row.CheckClause, " IS NOT NULL")
      [] flt.kind = "foreignKey" -> row.Type = "FOREIGN KEY"

\* The rows Next yields, and Len counts, under the installed filter.
RECURSIVE Visible(_, _)
Visible(rows, flt) ==
    IF rows = << >> THEN << >>
    ELSE IF Passes(flt, Head(rows))
         THEN <<Head(rows)>> \o Visible(Tail(rows), flt)
         ELSE Visible(Tail(rows), flt)

\* No filter, whatever showSystem is.
KeepAllRows(showSystem, sys) == NoFilter

\* The filter, whatever showSystem is.
DropSystemRows(showSystem, sys) == NotSystemSchema(sys)

\* "if !showSystem { res.SetFilter(...) }": no filter with showSystem.
SystemFilter(showSystem, sys) ==
    IF ~showSystem THEN NotSystemSchema(sys) ELSE NoFilter

(***************************************************************************)
(* The Writer                                                              *)
(***************************************************************************)

\* w.tableTypes and w.funcTypes as NewIngresWriter sets them.
TableTypes ==
    [t |-> <<"TABLE", "BASE TABLE", "SYSTEM TABLE", "SYNONYM", "LOCAL TEMPORARY", "GLOBAL TEMPORARY">>,
     v |-> <<"VIEW", "SYSTEM VIEW">>,
     s |-> <<"SEQUENCE">>]

FuncTypes ==
    [a |-> <<"AGGREGATE">>, n |-> <<"FUNCTION">>, p |-> <<"PROCEDURE">>,
     t |-> <<"TRIGGER">>, w |-> <<"WINDOW">>]

DefaultSystemSchemas == {InformationSchema}

\* WithSystemSchemas(schemas): the set of the listed names replaces the default.
WithSystemSchemas(schemas) == {schemas[i] : i \in DOMAIN schemas}

\* The orders in which "range m" may visit the keys of a map.
KeyOrders(K) == {o \in SeqsUpTo(K, Cardinality(K)) : Len(o) = Cardinality(K) /\ NoDup(o)}

\* The type strings of every key visited, whether flags names it or not.
RECURSIVE AllTypes(_, _, _)
AllTypes(m, flags, order) ==
    IF order = << >> THEN << >>
    ELSE m[Head(order)] \o AllTypes(m, flags, Tail(order))

\* "for k, v := range m { if strings.ContainsRune(flags, k) { types =
\* append(types, v...) } }", the keys visited in the given order.
RECURSIVE SelectTypes(_, _, _)
SelectTypes(m, flags, order) ==
    IF order = << >> THEN << >>
    ELSE (IF ContainsRune(flags, Head(order)) THEN m[Head(order)] ELSE << >>)
         \o SelectTypes(m, flags, Tail(order))

\* What a command leaves behind.
Result(q, o, r) == [queries |-> q, out |-> o, ret |-> r, found |-> 0]

NotSupportedByDriver == <<"not supported by driver">>

RelationNotFound(pattern) == [kind |-> "message", text |-> "relation not found", pattern |-> pattern]

\* tblfmt.EncodeAll(w.w, res, params): the encoder iterates the ResultSet with
\* Next and writes one table, or fails.
EncodeAll(title, columns, rows, enc) ==
    IF enc = "nil"
    THEN [out |-> <<[kind |-> "table", title |-> title, columns |-> columns, rows |-> rows]>>,
          err |-> Nil]
    ELSE [out |-> << >>, err |-> <<"encode failed">>]

\* A result that is never taken to be empty.
NeverNoRows(rows) == FALSE

\* "if res.Len() == 0": rows is what Len counts.
NoRows(rows) == Len(rows) = 0

\* ListSchemas(u, pattern, verbose, showSystem)
ListSchemasRun(cp, sys, pattern, verbose, showSystem, resp, enc) ==
    IF ~Implements(cp, "SchemaReader") THEN Result(<< >>, << >>, NotSupportedByDriver)
    ELSE
    LET q == Query("Schemas", "ListSchemas",
                   [EmptyFilter EXCEPT !.Name = pattern, !.WithSystem = showSystem], resp, TRUE)
    IN  IF resp.err # "nil" THEN Result(<<q>>, << >>, Wrap("failed to list schemas", <<resp.err>>))
        ELSE LET flt == SystemFilter(showSystem, sys)
                 e == EncodeAll("List of schemas", << >>, Visible(resp.rows, flt), enc)
             IN  Result(<<q>>, e.out, e.err)

\* ListTables(u, tableTypes, pattern, verbose, showSystem)
ListTablesRun(cp, sys, tableTypes, order, pattern, verbose, showSystem, resp, enc) ==
    IF ~Implements(cp, "TableReader") THEN Result(<< >>, << >>, NotSupportedByDriver)
    ELSE
    LET types == SelectTypes(TableTypes, tableTypes, order)
        pp == parsePattern(pattern)
    IN  IF pp[3] # "nil" THEN Result(<< >>, << >>, Wrap("failed to parse search pattern", <<pp[3]>>))
        ELSE
        LET q == Query("Tables", "ListTables",
                       [EmptyFilter EXCEPT !.Schema = pp[1], !.Name = pp[2],
                                           !.Types = types, !.WithSystem = showSystem], resp, TRUE)
        IN  IF resp.err # "nil" THEN Result(<<q>>, << >>, Wrap("failed to list tables", <<resp.err>>))
            ELSE
            LET flt == SystemFilter(showSystem, sys)
                rows == Visible(resp.rows, flt)
            IN  IF NoRows(rows) THEN Result(<<q>>, <<RelationNotFound(pattern)>>, Nil)
                ELSE LET columns == <<"Name", "Type">>
                                    \o (IF verbose THEN <<"Rows", "Size", "Comment">> ELSE << >>)
                         e == EncodeAll("List of relations", columns, rows, enc)
                     IN  Result(<<q>>, e.out, e.err)

\* ListIndexes(u, pattern, verbose, showSystem)
ListIndexesRun(cp, sys, pattern, verbose, showSystem, resp, enc) ==
    IF ~Implements(cp, "IndexReader") THEN Result(<< >>, << >>, NotSupportedByDriver)
    ELSE
    LET pp == parsePattern(pattern)
    IN  IF pp[3] # "nil" THEN Result(<< >>, << >>, Wrap("failed to parse search pattern", <<pp[3]>>))
        ELSE
        LET q == Query("Indexes", "ListIndexes",
                       [EmptyFilter EXCEPT !.Schema = pp[1], !.Name = pp[2],
                                           !.WithSystem = showSystem], resp, TRUE)
        IN  IF resp.err # "nil" THEN Result(<<q>>, << >>, Wrap("failed to list indexes", <<resp.err>>))
            ELSE
            LET flt == SystemFilter(showSystem, sys)
                rows == Visible(resp.rows, flt)
            IN  IF NoRows(rows) THEN Result(<<q>>, <<RelationNotFound(pattern)>>, Nil)
                ELSE LET columns == <<"Schema", "Name", "Type", "Table">>
                                    \o (IF verbose THEN <<"Primary?", "Unique?">> ELSE << >>)
                         e == EncodeAll("List of indexes", columns, rows, enc)
                     IN  Result(<<q>>, e.out, e.err)

\* ListAllDbs(u, pattern, verbose); custom is what w.listAllDbs returns when
\* it is set.
ListAllDbsRun(cp, hasCustom, pattern, verbose, custom, resp, enc) ==
    IF hasCustom
    THEN Result(<< >>, <<[kind |-> "listAllDbs", pattern |-> pattern, verbose |-> verbose]>>, custom)
    ELSE
    IF ~Implements(cp, "CatalogReader") THEN Result(<< >>, << >>, NotSupportedByDriver)
    ELSE
    LET q == Query("Catalogs", "ListAllDbs", [EmptyFilter EXCEPT !.Name = pattern], resp, TRUE)
    IN  IF resp.err # "nil" THEN Result(<<q>>, << >>, Wrap("failed to list catalogs", <<resp.err>>))
        ELSE LET e == EncodeAll("List of databases", << >>, resp.rows, enc)
             IN  Result(<<q>>, e.out, e.err)

\* ListPrivilegeSummaries(u, pattern, showSystem)
PrivilegeTableTypes == <<"t", "v", "m", "s">>

ListPrivilegeSummariesRun(cp, sys, order, pattern, showSystem, resp, enc) ==
    IF ~Implements(cp, "PrivilegeSummaryReader") THEN Result(<< >>, << >>, NotSupportedByDriver)
    ELSE
    LET pp == parsePattern(pattern)
    IN  IF pp[3] # "nil" THEN Result(<< >>, << >>, Wrap("failed to parse search pattern", <<pp[3]>>))
        ELSE
        LET types == SelectTypes(TableTypes, PrivilegeTableTypes, order)
            q == Query("PrivilegeSummaries", "ListPrivilegeSummaries",
                       [EmptyFilter EXCEPT !.Schema = pp[1], !.Name = pp[2],
                                           !.WithSystem = showSystem, !.Types = types], resp, TRUE)
        IN  IF resp.err # "nil" THEN Result(<<q>>, << >>, Wrap("failed to list table privileges", <<resp.err>>))
            ELSE LET flt == SystemFilter(showSystem, sys)
                     e == EncodeAll("Access privileges", << >>, Visible(resp.rows, flt), enc)
                 IN  Result(<<q>>, e.out, e.err)

\* fmt.Sprintf("%.4f", float64(num) / float64(den)), read in ten-thousandths.
Format4(num, den) == (2 * 10000 * num + den) \div (2 * den)

\* The first n elements, s[:n]; n < 0 or n > len(s) is a run-time panic.
SliceOK(s, n) == 0 <= n /\ n <= Len(s)

\* The values of one row with the two lists not cut to k entries.
StatValuesUncut(f, rows, verbose, k) ==
    [Schema |-> f.Schema, Table |-> f.Table, Name |-> f.Name,
     NumDistinct |-> f.NumDistinct,
     DistFrac |-> IF rows # 0 /\ f.NumDistinct # rows
                  THEN Format4(f.NumDistinct, rows)
                  ELSE Format4(1, 1),
     TopN |-> IF verbose THEN f.TopN ELSE << >>,
     TopNFreqs |-> IF verbose THEN f.TopNFreqs ELSE << >>]

\* The values ShowStats' scan function hands the encoder for one row.
StatValues(f, rows, verbose, k) ==
    LET freqs == f.TopNFreqs
        n == IF k > Len(freqs) THEN Len(freqs) ELSE k
        distFrac == IF rows # 0 /\ f.NumDistinct # rows
                    THEN Format4(f.NumDistinct, rows)
                    ELSE Format4(1, 1)
    IN  [Schema |-> f.Schema, Table |-> f.Table, Name |-> f.Name,
         NumDistinct |-> f.NumDistinct, DistFrac |-> distFrac,
         TopN |-> IF verbose THEN SubSeq(f.TopN, 1, n) ELSE << >>,
         TopNFreqs |-> IF verbose THEN SubSeq(freqs, 1, n) ELSE << >>]

StatPanics(f, verbose, k) ==
    LET n == IF k > Len(f.TopNFreqs) THEN Len(f.TopNFreqs) ELSE k
    IN  verbose /\ ~(SliceOK(f.TopN, n) /\ SliceOK(f.TopNFreqs, n))

\* ShowStats(u, statTypes, pattern, verbose, k)
ShowStatsRun(cp, pattern, verbose, k, tresp, resp, enc) ==
    IF ~Implements(cp, "ColumnStatReader") THEN Result(<< >>, << >>, NotSupportedByDriver)
    ELSE
    LET pp == parsePattern(pattern)
    IN  IF pp[3] # "nil" THEN Result(<< >>, << >>, Wrap("failed to parse search pattern", <<pp[3]>>))
        ELSE
        LET hasTR == Implements(cp, "TableReader")
            tq == IF hasTR
                  THEN <<Query("Tables", "ShowStats",
                               [EmptyFilter EXCEPT !.Schema = pp[1], !.Name = pp[2]], tresp, TRUE)>>
                  ELSE << >>
        IN  IF hasTR /\ tresp.err # "nil"
            THEN Result(tq, << >>, Wrap("failed to get table entry", <<tresp.err>>))
            ELSE
            LET rows == IF hasTR /\ Len(tresp.rows) > 0 THEN tresp.rows[1].Rows ELSE 0
                types == <<"basic">> \o (IF verbose THEN <<"extended">> ELSE << >>)
                q == Query("ColumnStats", "ShowStats",
                           [EmptyFilter EXCEPT !.Schema = pp[1], !.Parent = pp[2],
                                               !.Types = types], resp, TRUE)
                qs == tq \o <<q>>
            IN  IF resp.err # "nil"
                THEN Result(qs, << >>, Wrap("failed to get column stats", <<resp.err>>))
                ELSE IF NoRows(resp.rows)
                THEN Result(qs, <<RelationNotFound(pattern)>>, Nil)
                ELSE
                LET columns == <<"Schema", "Table", "Name", "Average width", "Nulls fraction",
                                 "Distinct values", "Dist. fraction">>
                               \o (IF verbose
                                   THEN <<"Minimum value", "Maximum value", "Mean value",
                                          "Top N common values", "Top N values freqs">>
                                   ELSE << >>)
                    values == [i \in DOMAIN resp.rows |-> StatValues(resp.rows[i], rows, verbose, k)]
                    e == EncodeAll("Column stats", columns, values, enc)
                IN  IF enc = "nil" /\ \E i \in DOMAIN resp.rows : StatPanics(resp.rows[i], verbose, k)
                    THEN Result(qs, << >>, Panic)
                    ELSE Result(qs, e.out, e.err)

\* A string field as text: a word, or nothing when it is empty.
Word(w) == IF w = "" THEN << >> ELSE <<w>>

\* fmt.Sprintf("%s%s%s", typ, name, c.DataType) in getFunctionColumns.
FormatArg(c) ==
    LET typ == IF c.Type # "IN" /\ c.Type # "" THEN <<c.Type, " ">> ELSE << >>
        name == IF c.Name # "" THEN <<c.Name, " ">> ELSE << >>
    IN  typ \o name \o Word(c.DataType)

\* strings.Join(args, ", ")
RECURSIVE Join(_, _)
Join(args, sep) ==
    IF args = << >> THEN << >>
    ELSE IF Len(args) = 1 THEN args[1]
    ELSE args[1] \o <<sep>> \o Join(Tail(args), sep)

\* The loop without its "continue" for the result row.
RECURSIVE FormatArgsAll(_)
FormatArgsAll(cols) ==
    IF cols = << >> THEN << >>
    ELSE <<FormatArg(Head(cols))>> \o FormatArgsAll(Tail(cols))

\* "for cols.Next() { ...; args = append(args, ...) }", the rows of ordinal
\* position 0 skipped.
RECURSIVE FormatArgs(_)
FormatArgs(cols) ==
    IF cols = << >> THEN << >>
    ELSE IF Head(cols).OrdinalPosition = 0 THEN FormatArgs(Tail(cols))
    ELSE <<FormatArg(Head(cols))>> \o FormatArgs(Tail(cols))

\* What FunctionColumns answers for a function of the source, or the error
\* it returns.
FunctionColumnsAnswer(f, fcErr) ==
    IF fcErr = "nil"
    THEN [err |-> "nil", rows |-> FunctionColumnsOf(f)]
    ELSE [err |-> fcErr, rows |-> << >>]

\* getFunctionColumns(c, s, f): the argument list and the error, resp being
\* what the reader answers.  The ResultSet it opens is not closed.
getFunctionColumns(cp, c, sch, f, resp) ==
    IF ~Implements(cp, "FunctionColumnReader")
    THEN [queries |-> << >>, value |-> << >>, err |-> Panic]
    ELSE
    LET q == Query("FunctionColumns", "getFunctionColumns",
                   [EmptyFilter EXCEPT !.Catalog = c, !.Schema = sch, !.Parent = f], resp, FALSE)
    IN  IF resp.err # "nil"
        THEN [queries |-> <<q>>, value |-> << >>, err |-> <<resp.err>>]
        ELSE [queries |-> <<q>>, value |-> Join(FormatArgs(resp.rows), ", "), err |-> Nil]

\* One round of the first pass of DescribeFunctions: the row gets its
\* ArgTypes.
FillArgTypes(cp, f, fcErr) ==
    Only({[queries |-> g.queries,
           row |-> [f EXCEPT !.ArgTypes = g.value],
           err |-> IF g.err = Nil THEN Nil
                   ELSE WrapErr("failed to get columns of function", g.err)]
          : g \in {getFunctionColumns(cp, f.Catalog, f.Schema, f.SpecificName,
                                       FunctionColumnsAnswer(f.SpecificName, fcErr))}})

\* The iteration goes on where the first pass left it: at the end.
Exhausted(rows) == << >>

\* res.Reset(): the next iteration starts at the first row again.
Reset(rows) == rows

\* The first pass over the rows Next yields, ended by the first failure, and
\* the rows the encoder then iterates.
FirstPass(rounds) ==
    LET failing == {i \in DOMAIN rounds : rounds[i].err # Nil}
        ran == IF failing = {} THEN Len(rounds) ELSE Minimum(failing)
    IN  [queries |-> Flatten([i \in 1..ran |-> rounds[i].queries]),
         rows |-> Reset([i \in 1..ran |-> rounds[i].row]),
         err |-> IF failing = {} THEN Nil ELSE rounds[ran].err]

\* DescribeFunctions(u, funcTypes, pattern, verbose, showSystem)
DescribeFunctionsRun(cp, sys, funcTypes, order, pattern, verbose, showSystem, resp, fcErr, enc) ==
    IF ~Implements(cp, "FunctionReader") THEN Result(<< >>, << >>, NotSupportedByDriver)
    ELSE
    LET types == SelectTypes(FuncTypes, funcTypes, order)
        pp == parsePattern(pattern)
    IN  IF pp[3] # "nil" THEN Result(<< >>, << >>, Wrap("failed to parse search pattern", <<pp[3]>>))
        ELSE
        LET q == Query("Functions", "DescribeFunctions",
                       [EmptyFilter EXCEPT !.Schema = pp[1], !.Name = pp[2],
                                           !.Types = types, !.WithSystem = showSystem], resp, TRUE)
        IN  IF resp.err # "nil" THEN Result(<<q>>, << >>, Wrap("failed to list functions", <<resp.err>>))
            ELSE
            LET flt == SystemFilter(showSystem, sys)
                rows == Visible(resp.rows, flt)
            IN  Only({
                IF pass.err # Nil THEN Result(<<q>> \o pass.queries, << >>, pass.err)
                ELSE
                LET columns == <<"Schema", "Name", "Result data type", "Argument data types", "Type">>
                               \o (IF verbose
                                   THEN <<"Volatility", "Security", "Language", "Source code">>
                                   ELSE << >>)
                    e == EncodeAll("List of functions", columns, pass.rows, enc)
                IN  Result(<<q>> \o pass.queries, e.out, e.err)
                : pass \in {IF Implements(cp, "FunctionColumnReader")
                            THEN FirstPass([n \in DOMAIN rows |-> FillArgTypes(cp, rows[n], fcErr)])
                            ELSE [queries |-> << >>, rows |-> rows, err |-> Nil]}})

(***************************************************************************)
(* DescribeTableDetails                                                    *)
(***************************************************************************)

\* At most one call of a run fails: the reader method or encoder call made at
\* one site returns an error (for a reader method "ns" or "err").
NoFault == [site |-> "none", kind |-> "nil"]

ReaderSites ==
    {"Tables", "Columns", "Sequences", "Indexes", "describeIndex",
     "describeTableIndexes", "getIndexColumns", "Check constraints:",
     "Foreign-key constraints:", "Referenced by:", "getConstraintColumns", "Triggers"}

EncoderSites == {"EncodeTable", "EncodeSequence", "EncodeIndex"}

DescribeFaults ==
    {NoFault} \cup {[site |-> st, kind |-> k] : st \in ReaderSites, k \in {"err", "ns"}}
              \cup {[site |-> st, kind |-> "err"] : st \in EncoderSites}

\* Every error, text.ErrNotSupported included.
FailedAtAll(resp) == resp.err # "nil"

\* "err != nil && err != text.ErrNotSupported"
Failed(resp) == resp.err # "nil" /\ resp.err # "ns"

Answer(fault, site, rows) ==
    IF fault.site = site THEN [err |-> fault.kind, rows |-> << >>]
    ELSE [err |-> "nil", rows |-> rows]

\* What a function has done when it returns: the reader calls it made, what
\* it wrote, and its error.
Step(q, o, e) == [queries |-> q, out |-> o, err |-> e]

\* The steps of s that fail.
Failing(s) == {i \in DOMAIN s : s[i].err # Nil}

\* How many steps of s run: all of them, or those up to the first that fails.
Ran(s) == IF Failing(s) = {} THEN Len(s) ELSE Minimum(Failing(s))

\* How many steps of s run to their end without an error.
Completed(s) == IF Failing(s) = {} THEN Len(s) ELSE Minimum(Failing(s)) - 1

\* Statements in sequence, each followed by "if err != nil { return err }":
\* the steps up to the first that fails, and its error.
ChainOf(s) ==
    Step(Flatten([i \in 1..Ran(s) |-> s[i].queries]),
         Flatten([i \in 1..Ran(s) |-> s[i].out]),
         IF Failing(s) = {} THEN Nil ELSE s[Ran(s)].err)

Chain(steps) == Only({ChainOf(s) : s \in {steps}})

\* "if err != nil { return fmt.Errorf(msg, err) }" after a call.
Wrapped(msg, step) ==
    Only({IF s.err = Nil THEN s ELSE Step(s.queries, s.out, WrapErr(msg, s.err)) : s \in {step}})

RECURSIVE Names(_)
Names(rows) == IF rows = << >> THEN << >> ELSE <<Head(rows).Name>> \o Names(Tail(rows))

RECURSIVE ForeignNames(_)
ForeignNames(rows) ==
    IF rows = << >> THEN << >> ELSE <<Head(rows).ForeignName>> \o ForeignNames(Tail(rows))

\* getIndexColumns(c, s, t, i): the joined column names and the error.  The
\* ResultSet it opens is not closed.
getIndexColumns(cp, fault, i) ==
    IF ~Implements(cp, "IndexColumnReader")
    THEN [queries |-> << >>, value |-> << >>, err |-> Panic]
    ELSE
    LET resp == Answer(fault, "getIndexColumns", IndexColumnsOf(i.Name))
        q == Query("IndexColumns", "getIndexColumns",
                   [EmptyFilter EXCEPT !.Catalog = i.Catalog, !.Schema = i.Schema,
                                       !.Parent = i.Table, !.Name = i.Name], resp, FALSE)
    IN  IF resp.err # "nil"
        THEN [queries |-> <<q>>, value |-> << >>, err |-> <<resp.err>>]
        ELSE [queries |-> <<q>>, value |-> Names(resp.rows), err |-> Nil]

\* getConstraintColumns(c, s, t, n): the two joined column lists and the
\* error.  The ResultSet it opens is not closed.
getConstraintColumns(cp, fault, c) ==
    IF ~Implements(cp, "ConstraintColumnReader")
    THEN [queries |-> << >>, value |-> << >>, err |-> Panic]
    ELSE
    LET resp == Answer(fault, "getConstraintColumns", ConstraintColumnsOf(c.Name))
        q == Query("ConstraintColumns", "getConstraintColumns",
                   [EmptyFilter EXCEPT !.Catalog = c.Catalog, !.Schema = c.Schema,
                                       !.Parent = c.Table, !.Name = c.Name], resp, FALSE)
    IN  IF resp.err # "nil"
        THEN [queries |-> <<q>>, value |-> << >>, err |-> <<resp.err>>]
        ELSE [queries |-> <<q>>, value |-> <<Names(resp.rows), ForeignNames(resp.rows)>>,
              err |-> Nil]

Header(label) == [kind |-> "header", section |-> label]

Line(label, name, columns) ==
    [kind |-> "line", section |-> label, name |-> name, columns |-> columns]

\* One round of the loop of describeTableIndexes.
IndexLine(cp, fault, i) ==
    Only({IF g.err # Nil
          THEN Step(g.queries, << >>, WrapErr("failed to get columns of index", g.err))
          ELSE Step(g.queries, <<Line("Indexes:", i.Name, g.value)>>, Nil)
          : g \in {getIndexColumns(cp, fault, i)}})

\* describeTableIndexes(out, sp, tp)
describeTableIndexes(cp, fault, sp, tp) ==
    IF ~Implements(cp, "IndexReader") THEN Step(<< >>, << >>, Nil)
    ELSE
    LET resp == Answer(fault, "describeTableIndexes", TableIndexesOf(sp, tp))
        q == Query("Indexes", "describeTableIndexes",
                   [EmptyFilter EXCEPT !.Schema = sp, !.Parent = tp], resp, TRUE)
    IN  IF Failed(resp)
        THEN Step(<<q>>, << >>, Wrap("failed to list indexes for table", <<resp.err>>))
        ELSE IF resp.err = "ns" THEN Step(<<q>>, << >>, Nil)
        ELSE IF Len(resp.rows) = 0 THEN Step(<<q>>, << >>, Nil)
        ELSE Chain(<<Step(<<q>>, <<Header("Indexes:")>>, Nil)>>
                   \o [n \in DOMAIN resp.rows |-> IndexLine(cp, fault, resp.rows[n])])

\* One round of the loop of describeTableConstraints, with the printer of
\* the section: the check-constraint printer writes the row as it is, the two
\* foreign-key printers first call getConstraintColumns.
ConstraintLine(cp, fault, label, c) ==
    IF label = "Check constraints:"
    THEN Step(<< >>, <<Line(label, c.Name, << >>)>>, Nil)
    ELSE Only({IF g.err # Nil THEN Step(g.queries, << >>, g.err)
               ELSE Step(g.queries, <<Line(label, c.Name, g.value)>>, Nil)
               : g \in {getConstraintColumns(cp, fault, c)}})

\* describeTableConstraints(out, filter, postFilter, label, printer)
describeTableConstraints(cp, fault, filter, postFilter, label, answer) ==
    IF ~Implements(cp, "ConstraintReader") THEN Step(<< >>, << >>, Nil)
    ELSE
    LET resp == Answer(fault, label, answer)
        q == Query("Constraints", "describeTableConstraints", filter, resp, TRUE)
        rows == Visible(resp.rows, postFilter)
    IN  IF Failed(resp)
        THEN Step(<<q>>, << >>, Wrap("failed to list constraints", <<resp.err>>))
        ELSE IF resp.err = "ns" THEN Step(<<q>>, << >>, Nil)
        ELSE IF Len(rows) = 0 THEN Step(<<q>>, << >>, Nil)
        ELSE Chain(<<Step(<<q>>, <<Header(label)>>, Nil)>>
                   \o [n \in DOMAIN rows |-> ConstraintLine(cp, fault, label, rows[n])])

\* describeTableTriggers(out, sp, tp)
describeTableTriggers(cp, fault, sp, tp) ==
    IF ~Implements(cp, "TriggerReader") THEN Step(<< >>, << >>, Nil)
    ELSE
    LET resp == Answer(fault, "Triggers", TriggersOf(sp, tp))
        q == Query("Triggers", "describeTableTriggers",
                   [EmptyFilter EXCEPT !.Schema = sp, !.Parent = tp], resp, TRUE)
    IN  IF Failed(resp)
        THEN Step(<<q>>, << >>, Wrap("failed to list triggers for table", <<resp.err>>))
        ELSE IF resp.err = "ns" THEN Step(<<q>>, << >>, Nil)
        ELSE IF Len(resp.rows) = 0 THEN Step(<<q>>, << >>, Nil)
        ELSE Step(<<q>>,
                  <<Header("Triggers:")>>
                  \o [n \in DOMAIN resp.rows |-> Line("Triggers:", resp.rows[n].Name, << >>)],
                  Nil)

\* The error of the "Referenced by:" call is assigned to err and then
\* overwritten by the call of describeTableTriggers without being looked at.
Unchecked(step) ==
    Only({IF s.err = Panic THEN s ELSE Step(s.queries, s.out, Nil) : s \in {step}})

\* The summary with the triggers written first.
tableDetailsSummaryTriggersFirst(cp, fault, sp, tp) ==
    LET byParent == [EmptyFilter EXCEPT !.Schema = sp, !.Parent = tp]
        byReference == [EmptyFilter EXCEPT !.Schema = sp, !.Reference = tp]
    IN  Chain(<<describeTableTriggers(cp, fault, sp, tp),
                describeTableIndexes(cp, fault, sp, tp),
                describeTableConstraints(cp, fault, byParent, CheckFilter,
                                         "Check constraints:", ConstraintsOf(sp, tp)),
                describeTableConstraints(cp, fault, byParent, ForeignKeyFilter,
                                         "Foreign-key constraints:", ConstraintsOf(sp, tp)),
                Unchecked(describeTableConstraints(cp, fault, byReference, ForeignKeyFilter,
                                                   "Referenced by:", ReferencingOf(sp, tp)))>>)

\* The function tableDetailsSummary(sp, tp) returns, run.
tableDetailsSummary(cp, fault, sp, tp) ==
    LET byParent == [EmptyFilter EXCEPT !.Schema = sp, !.Parent = tp]
        byReference == [EmptyFilter EXCEPT !.Schema = sp, !.Reference = tp]
    IN  Chain(<<describeTableIndexes(cp, fault, sp, tp),
                describeTableConstraints(cp, fault, byParent, CheckFilter,
                                         "Check constraints:", ConstraintsOf(sp, tp)),
                describeTableConstraints(cp, fault, byParent, ForeignKeyFilter,
                                         "Foreign-key constraints:", ConstraintsOf(sp, tp)),
                Unchecked(describeTableConstraints(cp, fault, byReference, ForeignKeyFilter,
                                                   "Referenced by:", ReferencingOf(sp, tp))),
                describeTableTriggers(cp, fault, sp, tp)>>)

Table(title, name, columns, rows) ==
    [kind |-> "table", title |-> title, name |-> name, columns |-> columns, rows |-> rows]

\* encodeWithSummary(res, params, summary) for a table: the encoder writes
\* the table and then runs the summary function, whose error ends the
\* encoding.
encodeTableWithSummary(cp, fault, t, columns, rows) ==
    IF fault.site = "EncodeTable" THEN Step(<< >>, << >>, <<"encode failed">>)
    ELSE Chain(<<Step(<< >>, <<Table(t.Type, <<t.Schema, t.Name>>, columns, rows)>>, Nil),
                 tableDetailsSummary(cp, fault, t.Schema, t.Name)>>)

\* describeTableDetails(typ, sp, tp, verbose, showSystem)
describeTableDetails(cp, fault, t, verbose, showSystem) ==
    LET resp == Answer(fault, "Columns", ColumnsOf(t.Schema, t.Name))
        q == Query("Columns", "describeTableDetails",
                   [EmptyFilter EXCEPT !.Schema = t.Schema, !.Parent = t.Name,
                                       !.WithSystem = showSystem], resp, TRUE)
        columns == <<"Name", "Type", "Nullable", "Default">>
                   \o (IF verbose
                       THEN <<"Size", "Decimal Digits", "Radix", "Octet Length">>
                       ELSE << >>)
    IN  IF resp.err # "nil"
        THEN Step(<<q>>, << >>, Wrap("failed to list columns for table", <<resp.err>>))
        ELSE Chain(<<Step(<<q>>, << >>, Nil),
                     encodeTableWithSummary(cp, fault, t, columns, resp.rows)>>)

\* A loop that counts: what it did and the number of rounds it completed.
Counted(step, n) == [step |-> step, n |-> n]

NoStep == Counted(Step(<< >>, << >>, Nil), 0)

\* The loop without its "found++".
LoopUncounted(rounds) == Only({Counted(ChainOf(s), 0) : s \in {rounds}})

\* "for res.Next() { err = ...; if err != nil { return ... }; found++ }"
Loop(rounds) == Only({Counted(ChainOf(s), Completed(s)) : s \in {rounds}})

\* The ResultSet is opened, then looped over.
Opened(q, loop) ==
    Only({Counted(ChainOf(<<Step(<<q>>, << >>, Nil), l.step>>), l.n) : l \in {loop}})

\* One round of the loop of describeSequences: the sequence is encoded as a
\* table of its own.
SequenceReport(fault, s) ==
    IF fault.site = "EncodeSequence" THEN Step(<< >>, << >>, <<"encode failed">>)
    ELSE Step(<< >>, <<Table("Sequence", <<s.Schema, s.Name>>, << >>, <<s>>)>>, Nil)

\* describeSequences(sp, tp, verbose, showSystem): (found, err); found is 0
\* when it returns an error.
describeSequences(fault, sp, tp, verbose, showSystem, srows) ==
    LET resp == Answer(fault, "Sequences", srows)
        q == Query("Sequences", "describeSequences",
                   [EmptyFilter EXCEPT !.Schema = sp, !.Name = tp,
                                       !.WithSystem = showSystem], resp, TRUE)
    IN  IF Failed(resp)
        THEN Counted(Step(<<q>>, << >>, <<resp.err>>), 0)
        ELSE IF resp.err = "ns" THEN Counted(Step(<<q>>, << >>, Nil), 0)
        ELSE Only({Counted(l.step, IF l.step.err # Nil THEN 0 ELSE l.n)
                   : l \in {Opened(q, Loop([n \in DOMAIN resp.rows |->
                                               SequenceReport(fault, resp.rows[n])]))}})

\* describeIndex(i)
describeIndex(fault, i) ==
    LET resp == Answer(fault, "describeIndex", IndexColumnsOf(i.Name))
        q == Query("IndexColumns", "describeIndex",
                   [EmptyFilter EXCEPT !.Schema = i.Schema, !.Parent = i.Table,
                                       !.Name = i.Name], resp, TRUE)
    IN  IF resp.err # "nil"
        THEN Step(<<q>>, << >>, Wrap("failed to get index columns", <<resp.err>>))
        ELSE IF Len(resp.rows) = 0 THEN Step(<<q>>, << >>, Nil)
        ELSE IF fault.site = "EncodeIndex" THEN Step(<<q>>, << >>, <<"encode failed">>)
        ELSE Step(<<q>>,
                  <<Table("Index", <<i.Schema, i.Name>>, <<"Name", "Type">>, resp.rows),
                    Line("Index", i.Name, <<i.IsPrimary, i.Type, i.Table>>)>>,
                  Nil)

\* The three parts of DescribeTableDetails, each a counted step.
DescribeTablesPart(cp, sys, fault, sp, tp, verbose, showSystem, trows) ==
    IF ~(Implements(cp, "TableReader") /\ Implements(cp, "ColumnReader")) THEN NoStep
    ELSE
    LET resp == Answer(fault, "Tables", trows)
        q == Query("Tables", "DescribeTableDetails",
                   [EmptyFilter EXCEPT !.Schema = sp, !.Name = tp,
                                       !.WithSystem = showSystem], resp, TRUE)
        rows == Visible(resp.rows, SystemFilter(showSystem, sys))
    IN  IF resp.err # "nil"
        THEN Counted(Step(<<q>>, << >>, Wrap("failed to list tables", <<resp.err>>)), 0)
        ELSE Opened(q, Loop([n \in DOMAIN rows |->
                                Wrapped("failed to describe",
                                        describeTableDetails(cp, fault, rows[n],
                                                             verbose, showSystem))]))

DescribeSequencesPart(cp, fault, sp, tp, verbose, showSystem, srows) ==
    IF ~Implements(cp, "SequenceReader") THEN NoStep
    ELSE Only({Counted(Wrapped("failed to describe sequences", d.step), d.n)
               : d \in {describeSequences(fault, sp, tp, verbose, showSystem, srows)}})

DescribeIndexesPart(cp, sys, fault, sp, tp, showSystem, irows) ==
    IF ~(Implements(cp, "IndexReader") /\ Implements(cp, "IndexColumnReader")) THEN NoStep
    ELSE
    LET resp == Answer(fault, "Indexes", irows)
        q == Query("Indexes", "DescribeTableDetails",
                   [EmptyFilter EXCEPT !.Schema = sp, !.Name = tp,
                                       !.WithSystem = showSystem], resp, TRUE)
        rows == Visible(resp.rows, SystemFilter(showSystem, sys))
    IN  IF Failed(resp)
        THEN Counted(Step(<<q>>, << >>, Wrap("failed to list indexes for table", <<resp.err>>)), 0)
        ELSE IF resp.err = "ns" THEN Counted(Step(<<q>>, << >>, Nil), 0)
        ELSE Opened(q, Loop([n \in DOMAIN rows |->
                                Wrapped("failed to describe index",
                                        describeIndex(fault, rows[n]))]))

\* The end of DescribeTableDetails when a part that fails does not end the
\* command: the parts after it run as well, and the first error is returned.
DescribeEndRunsOn(pattern, parts) ==
    LET steps == [n \in DOMAIN parts |-> parts[n].step]
        total == parts[1].n + parts[2].n + parts[3].n
    IN  [queries |-> Flatten([n \in DOMAIN steps |-> steps[n].queries]),
         out |-> Flatten([n \in DOMAIN steps |-> steps[n].out])
                 \o (IF total = 0 /\ Failing(steps) = {}
                     THEN <<RelationNotFound(pattern)>> ELSE << >>),
         ret |-> IF Failing(steps) = {} THEN Nil ELSE steps[Minimum(Failing(steps))].err,
         found |-> total]

\* The end of DescribeTableDetails: parts is the tables, sequences and
\* indexes part; found counts the rounds completed by the parts that ran.
DescribeEnd(pattern, parts) ==
    LET ran == Ran([n \in DOMAIN parts |-> parts[n].step])
        all == ChainOf([n \in DOMAIN parts |-> parts[n].step])
        total == IF ran >= 3 THEN parts[1].n + parts[2].n + parts[3].n
                 ELSE IF ran = 2 THEN parts[1].n + parts[2].n
                 ELSE parts[1].n
    IN  IF all.err # Nil
        THEN [queries |-> all.queries, out |-> all.out, ret |-> all.err, found |-> total]
        ELSE [queries |-> all.queries,
              out |-> all.out \o (IF total = 0 THEN <<RelationNotFound(pattern)>> ELSE << >>),
              ret |-> Nil, found |-> total]

\* DescribeTableDetails(u, pattern, verbose, showSystem)
DescribeTableDetailsRun(cp, sys, pattern, verbose, showSystem, trows, srows, irows, fault) ==
    LET pp == parsePattern(pattern)
    IN  IF pp[3] # "nil"
        THEN Result(<< >>, << >>, Wrap("failed to parse search pattern", <<pp[3]>>))
        ELSE Only({DescribeEnd(pattern, parts) : parts \in
                   {<<DescribeTablesPart(cp, sys, fault, pp[1], pp[2], verbose, showSystem, trows),
                      DescribeSequencesPart(cp, fault, pp[1], pp[2], verbose, showSystem, srows),
                      DescribeIndexesPart(cp, sys, fault, pp[1], pp[2], showSystem, irows)>>}})

(***************************************************************************)
(* The commands as actions                                                 *)
(***************************************************************************)

\* The patterns the commands are run with: a schema-qualified one with a
\* wildcard and a bare name.
Patterns == {<<"public", ".", "t", "*">>, <<"t1">>}

\* The type-code strings ListTables is run with ("m" has no entry in
\* w.tableTypes).
TableTypeFlags == {<< >>, <<"t">>, <<"v", "t">>, <<"s", "m">>}

\* The function-kind strings DescribeFunctions is run with.
FuncTypeFlags == {<< >>, <<"n">>, <<"p", "a">>}

\* Two of the orders in which the keys of w.funcTypes may be visited, each
\* the reverse of the other.
FuncTypeOrders == {<<"a", "n", "p", "t", "w">>, <<"w", "t", "p", "n", "a">>}

\* The limits ShowStats is run with.
StatLimits == {-1, 0, 2, 5}

\* The readers: one that implements every capability, the readers that lack
\* exactly one, one that implements only TableReader and ColumnReader, and
\* one that implements none.
ReaderCaps ==
    {AllCaps, {}, {"TableReader", "ColumnReader"}} \cup {AllCaps \ {c} : c \in AllCaps}

\* The writer options: none, WithSystemSchemas, WithListAllDbs.
Init ==
    /\ caps \in ReaderCaps
    /\ \E opt \in {"none", "WithSystemSchemas", "WithListAllDbs"} :
          /\ systemSchemas = IF opt = "WithSystemSchemas"
                             THEN WithSystemSchemas(<<Public>>)
                             ELSE DefaultSystemSchemas
          /\ listAllDbs = (opt = "WithListAllDbs")
    /\ call = NoCall
    /\ queries = << >>
    /\ out = << >>
    /\ ret = NoRet
    /\ found = 0
    /\ parsed = NotParsed
    /\ NoWriters

Idle == call.cmd = "none"

Finish(c, r) ==
    /\ call' = c
    /\ queries' = r.queries
    /\ out' = r.out
    /\ ret' = r.ret
    /\ found' = r.found
    /\ UNCHANGED <<caps, systemSchemas, listAllDbs, parsed>>
    /\ UNCHANGED wvars

ListSchemas ==
    /\ Idle
    /\ \E pattern \in Patterns, verbose \in BOOLEAN, showSystem \in BOOLEAN,
          source \in SUBSET SchemaRows, enc \in EncOutcomes :
          \E resp \in SchemasAnswers(source, showSystem) :
          Finish([NoCall EXCEPT !.cmd = "ListSchemas", !.pattern = pattern,
                                !.verbose = verbose, !.showSystem = showSystem,
                                !.source = source],
                 ListSchemasRun(caps, systemSchemas, pattern, verbose, showSystem, resp, enc))

ListTables ==
    /\ Idle
    /\ \E tableTypes \in TableTypeFlags, pattern \in Patterns, verbose \in BOOLEAN,
          showSystem \in BOOLEAN, resp \in Responses(TableRows), enc \in EncOutcomes :
          \E order \in KeyOrders(DOMAIN TableTypes) :
             Finish([NoCall EXCEPT !.cmd = "ListTables", !.types = tableTypes,
                                   !.pattern = pattern, !.verbose = verbose,
                                   !.showSystem = showSystem],
                    ListTablesRun(caps, systemSchemas, tableTypes, order, pattern,
                                  verbose, showSystem, resp, enc))

ListIndexes ==
    /\ Idle
    /\ \E pattern \in Patterns, verbose \in BOOLEAN, showSystem \in BOOLEAN,
          resp \in Responses(IndexRows), enc \in EncOutcomes :
          Finish([NoCall EXCEPT !.cmd = "ListIndexes", !.pattern = pattern,
                                !.verbose = verbose, !.showSystem = showSystem],
                 ListIndexesRun(caps, systemSchemas, pattern, verbose, showSystem, resp, enc))

ListAllDbs ==
    /\ Idle
    /\ \E pattern \in Patterns, verbose \in BOOLEAN, custom \in {Nil, <<"err">>},
          resp \in Responses(CatalogRows), enc \in EncOutcomes :
          Finish([NoCall EXCEPT !.cmd = "ListAllDbs", !.pattern = pattern,
                                !.verbose = verbose],
                 ListAllDbsRun(caps, listAllDbs, pattern, verbose, custom, resp, enc))

ListPrivilegeSummaries ==
    /\ Idle
    /\ \E pattern \in Patterns, showSystem \in BOOLEAN,
          resp \in Responses(PrivilegeSummaryRows), enc \in EncOutcomes :
          \E order \in KeyOrders(DOMAIN TableTypes) :
             Finish([NoCall EXCEPT !.cmd = "ListPrivilegeSummaries", !.pattern = pattern,
                                   !.showSystem = showSystem],
                    ListPrivilegeSummariesRun(caps, systemSchemas, order, pattern,
                                              showSystem, resp, enc))

ShowStats ==
    /\ Idle
    /\ \E pattern \in Patterns, verbose \in BOOLEAN, k \in StatLimits,
          tresp \in Responses(TableRows), resp \in Responses(ColumnStatRows),
          enc \in EncOutcomes :
          Finish([NoCall EXCEPT !.cmd = "ShowStats", !.pattern = pattern,
                                !.verbose = verbose, !.k = k],
                 ShowStatsRun(caps, pattern, verbose, k, tresp, resp, enc))

DescribeFunctions ==
    /\ Idle
    /\ \E funcTypes \in FuncTypeFlags, pattern \in Patterns, verbose \in BOOLEAN,
          showSystem \in BOOLEAN, resp \in Responses(FunctionRows),
          fcErr \in {"nil", "err", "ns"}, enc \in EncOutcomes :
          \E order \in FuncTypeOrders :
             Finish([NoCall EXCEPT !.cmd = "DescribeFunctions", !.types = funcTypes,
                                   !.pattern = pattern, !.verbose = verbose,
                                   !.showSystem = showSystem],
                    DescribeFunctionsRun(caps, systemSchemas, funcTypes, order, pattern,
                                         verbose, showSystem, resp, fcErr, enc))

\* DescribeTableDetails with the failing call, if any, drawn from F.
DescribeTableDetailsWith(F) ==
    /\ Idle
    /\ \E pattern \in Patterns, verbose \in BOOLEAN, showSystem \in BOOLEAN,
          trows \in RowSeqs(TableRows), srows \in RowSeqs(SequenceRows),
          irows \in RowSeqs(IndexRows), fault \in F :
          Finish([NoCall EXCEPT !.cmd = "DescribeTableDetails", !.pattern = pattern,
                                !.verbose = verbose, !.showSystem = showSystem],
                 DescribeTableDetailsRun(caps, systemSchemas, pattern, verbose, showSystem,
                                         trows, srows, irows, fault))

DescribeTableDetails == DescribeTableDetailsWith({NoFault})

DescribeTableDetailsFaulty == DescribeTableDetailsWith(DescribeFaults)

\* The command has returned; the next one starts with an empty trace.
Return ==
    /\ ~Idle
    /\ call.cmd # "parsePattern"
    /\ call' = NoCall
    /\ queries' = << >>
    /\ out' = << >>
    /\ ret' = NoRet
    /\ found' = 0
    /\ UNCHANGED <<caps, systemSchemas, listAllDbs, parsed>>
    /\ UNCHANGED wvars

Next ==
    \/ ListSchemas
    \/ ListTables
    \/ ListIndexes
    \/ ListAllDbs
    \/ ListPrivilegeSummaries
    \/ ShowStats
    \/ DescribeFunctions
    \/ DescribeTableDetails
    \/ Return

Spec == Init /\ [][Next]_vars

(***************************************************************************)
(* getFunctionColumns on its own, over the answers of the reader           *)
(***************************************************************************)

\* The most rows one FunctionColumns answer has.
MaxArgs == 2

\* The rows of a FunctionColumns answer: a result row (ordinal position 0) or
\* a parameter, with or without a mode, a name and a data type.
ArgColumns ==
    [OrdinalPosition : {0, 1}, Type : {"", "IN", "OUT"}, Name : {"", "a"},
     DataType : {"", "int"}]

InitArgs ==
    /\ caps = {"FunctionReader", "FunctionColumnReader"}
    /\ systemSchemas = DefaultSystemSchemas
    /\ listAllDbs = FALSE
    /\ call = NoCall
    /\ queries = << >>
    /\ out = << >>
    /\ ret = NoRet
    /\ found = 0
    /\ parsed = NotParsed
    /\ NoWriters

\* getFunctionColumns(c, s, f) for the function public.f1_1; parsed holds the
\* string it returns.
GetFunctionColumns ==
    /\ Idle
    /\ \E resp \in {[err |-> "nil", rows |-> cols] : cols \in SeqsUpTo(ArgColumns, MaxArgs)}
                 \cup {[err |-> "err", rows |-> << >>]} :
          LET g == getFunctionColumns(caps, << >>, Public, <<"f1_1">>, resp)
          IN  /\ call' = [NoCall EXCEPT !.cmd = "getFunctionColumns"]
              /\ queries' = g.queries
              /\ parsed' = g.value
              /\ ret' = g.err
    /\ UNCHANGED <<caps, systemSchemas, listAllDbs, out, found>>
    /\ UNCHANGED wvars

NextArgs == GetFunctionColumns

SpecArgs == InitArgs /\ [][NextArgs]_vars

(***************************************************************************)
(* DescribeTableDetails on its own, with failing calls                     *)
(***************************************************************************)

\* The capabilities DescribeTableDetails asserts on.
DescribeCaps ==
    {"TableReader", "ColumnReader", "SequenceReader", "IndexReader", "IndexColumnReader",
     "ConstraintReader", "ConstraintColumnReader", "TriggerReader"}

\* The readers it is run with: all of these capabilities, all but one, only
\* TableReader and ColumnReader, only SequenceReader, none.
DescribeReaderCaps ==
    {DescribeCaps, {}, {"TableReader", "ColumnReader"}, {"SequenceReader"}}
        \cup {DescribeCaps \ {c} : c \in DescribeCaps}

InitDescribe ==
    /\ caps \in DescribeReaderCaps
    /\ systemSchemas \in {DefaultSystemSchemas, WithSystemSchemas(<<Public>>)}
    /\ listAllDbs = FALSE
    /\ call = NoCall
    /\ queries = << >>
    /\ out = << >>
    /\ ret = NoRet
    /\ found = 0
    /\ parsed = NotParsed
    /\ NoWriters

NextDescribe ==
    \/ DescribeTableDetailsFaulty
    \/ Return

SpecDescribe == InitDescribe /\ [][NextDescribe]_vars

(***************************************************************************)
(* The Writers handed out by the function NewIngresWriter returns          *)
(***************************************************************************)

\* How many times the function NewIngresWriter returned is called.
MaxWriters == 2

\* How many entries the sinks receive in all.
MaxWritten == 2

\* The Writer the function returns is the pointer defaultWriter, whatever
\* the call: it has one struct behind it.
Deref(ptr) == defaultWriter

Written == Len(sinks["w1"]) + Len(sinks["w2"])

\* "defaultWriter := &IngresWriter{...}; for _, o := range opts { o(defaultWriter) }"
InitWriters ==
    /\ caps \in {{"SchemaReader"}, {}}
    /\ systemSchemas = DefaultSystemSchemas
    /\ listAllDbs = FALSE
    /\ call = NoCall
    /\ queries = << >>
    /\ out = << >>
    /\ ret = NoRet
    /\ found = 0
    /\ parsed = NotParsed
    /\ NoWriters

\* "func(db md.DB, w io.Writer) md.Writer { defaultWriter.db = db;
\* defaultWriter.w = w; return defaultWriter }"
NewWriter ==
    /\ Idle
    /\ Len(writers) < MaxWriters
    /\ \E db \in Dbs, w \in Sinks :
          /\ defaultWriter' = [db |-> db, w |-> w]
          /\ writers' = Append(writers, [ptr |-> "defaultWriter", db |-> db, w |-> w])
    /\ UNCHANGED <<caps, systemSchemas, listAllDbs, call, queries, out, ret, found, parsed,
                   sinks>>

\* ListSchemas run on the n-th Writer handed out: what it writes goes to the
\* w of the struct the Writer points to.
ListSchemasOn ==
    /\ Idle
    /\ Written < MaxWritten
    /\ \E n \in DOMAIN writers, pattern \in Patterns, showSystem \in BOOLEAN,
          enc \in EncOutcomes :
          \E resp \in SchemasAnswers(SchemaRows, showSystem) :
             \E r \in {ListSchemasRun(caps, systemSchemas, pattern, FALSE, showSystem,
                                      resp, enc)} :
                /\ call' = [NoCall EXCEPT !.cmd = "ListSchemas", !.pattern = pattern,
                                          !.showSystem = showSystem, !.source = SchemaRows]
                /\ queries' = r.queries
                /\ out' = r.out
                /\ ret' = r.ret
                /\ found' = r.found
                /\ sinks' = [sinks EXCEPT ![Deref(writers[n].ptr).w] =
                                @ \o [i \in DOMAIN r.out |->
                                         [writer |-> n, title |-> r.out[i].title]]]
    /\ UNCHANGED <<caps, systemSchemas, listAllDbs, parsed, defaultWriter, writers>>

NextWriters ==
    \/ NewWriter
    \/ ListSchemasOn
    \/ Return

SpecWriters == InitWriters /\ [][NextWriters]_vars

(***************************************************************************)
(* The claims                                                              *)
(***************************************************************************)

\* C1: parsePattern never fails and splits on the first "." only: with a "."
\* in the input the schema fragment is as long as the text before the first
\* "." and the name fragment as long as everything after it, and every symbol
\* that is not a "*" (further dots included) is found at its place in its
\* fragment; without a "." the schema fragment is empty and the name fragment
\* covers the whole input.
C1_SplitsOnFirstDot ==
    parsed # NotParsed =>
        LET p  == call.pattern
            sp == parsed[1]
            tp == parsed[2]
            dots == {i \in DOMAIN p : p[i] = "."}
        IN  /\ parsed[3] = "nil"
            /\ dots = {} =>
                  /\ sp = << >>
                  /\ Len(tp) = Len(p)
                  /\ \A j \in DOMAIN p : p[j] # "*" => tp[j] = p[j]
            /\ dots # {} =>
                  \E i \in dots :
                     /\ \A j \in dots : i <= j
                     /\ Len(sp) = i - 1
                     /\ Len(tp) = Len(p) - i
                     /\ \A j \in 1..(i - 1) : p[j] # "*" => sp[j] = p[j]
                     /\ \A j \in 1..(Len(p) - i) : p[i + j] # "*" => tp[j] = p[i + j]

\* "a.a.a" gives schema "a" and name "a.a".
C1_Witness ==
    /\ call.pattern = <<"a", ".", "a", ".", "a">>
    /\ parsed = <<<<"a">>, <<"a", ".", "a">>, "nil">>

\* C2: the two fragments, put back around the "." they were split at, are the
\* input with every "*" replaced by "%" and every other symbol unchanged and
\* in place.
C2_StarsBecomePercent ==
    parsed # NotParsed =>
        LET p == call.pattern
            whole == IF ContainsRune(p, ".")
                     THEN parsed[1] \o <<".">> \o parsed[2]
                     ELSE parsed[1] \o parsed[2]
        IN  /\ Len(whole) = Len(p)
            /\ \A j \in DOMAIN p : whole[j] = (IF p[j] = "*" THEN "%" ELSE p[j])

\* "a*.a*" gives ("a%", "a%").
C2_Witness ==
    /\ call.pattern = <<"a", "*", ".", "a", "*">>
    /\ parsed = <<<<"a", "%">>, <<"a", "%">>, "nil">>


(***************************************************************************)
(* What the claims below read from a finished command                      *)
(***************************************************************************)

\* The interface each top-level command asserts on first.
PrimaryCapability ==
    [ListSchemas |-> "SchemaReader", ListTables |-> "TableReader",
     ListIndexes |-> "IndexReader", ListAllDbs |-> "CatalogReader",
     DescribeFunctions |-> "FunctionReader", ShowStats |-> "ColumnStatReader",
     ListPrivilegeSummaries |-> "PrivilegeSummaryReader"]

\* The command that has just returned is c, without the override of
\* ListAllDbs standing in for it.
Ran1(c) == call.cmd = c /\ (c = "ListAllDbs" => ~listAllDbs)

\* The two fragments of the pattern of the call, and the pattern with its
\* stars replaced and nothing split off.
PatternSchema == parsePattern(call.pattern)[1]
PatternName == parsePattern(call.pattern)[2]
PatternReplaced == ReplaceAll(call.pattern, "*", "%")

IsSystemSchema(schema) == schema \in systemSchemas

\* The rows of a reader's answer that are in no system schema.
NonSystemRows(rows) == {i \in DOMAIN rows : ~IsSystemSchema(rows[i].Schema)}

\* The tables the encoder was handed, and the messages written.
Tables(o) == {i \in DOMAIN o : o[i].kind = "table"}
Messages(o) == {i \in DOMAIN o : o[i].kind = "message"}

IsRelationNotFound(e) ==
    e.kind = "message" /\ e.text = "relation not found" /\ e.pattern = call.pattern

\* The number of rows the encoder was handed by a list command.
RenderedCount == IF Tables(out) = {} THEN 0 ELSE Len(out[1].rows)

\* The calls DescribeTableDetails itself makes to list tables, sequences and
\* indexes.
Listings(reader) ==
    {i \in DOMAIN queries :
        /\ queries[i].reader = reader
        /\ queries[i].by \in {"DescribeTableDetails", "describeSequences"}}

\* The rows DescribeTableDetails matched in the listing of a reader: those
\* the iteration yields, which leaves out the system rows of tables and
\* indexes unless showSystem is set.
Matched(reader) ==
    IF Listings(reader) = {} THEN 0
    ELSE LET q == queries[CHOOSE i \in Listings(reader) : TRUE]
         IN  IF call.showSystem \/ reader = "Sequences" THEN Len(q.rows)
             ELSE Cardinality(NonSystemRows(q.rows))

(***************************************************************************)
(* C3: ListSchemas calls Schemas with a Filter whose Name is the pattern   *)
(* after parsing, every '*' replaced by '%', and whose WithSystem is       *)
(* showSystem.  The code passes the pattern as it was given.               *)
(***************************************************************************)
C3_SchemasFilterIsParsedPattern ==
    call.cmd = "ListSchemas" /\ queries # << >> =>
        /\ queries[1].filter.Name \in {PatternName, PatternReplaced}
        /\ queries[1].filter.WithSystem = call.showSystem

(***************************************************************************)
(* C4: ListIndexes, ListAllDbs (without an override), ListPrivilege-       *)
(* Summaries and ShowStats require their capability and give the reader a  *)
(* Filter built from the fragments parsePattern produced, never the raw    *)
(* pattern.  ListAllDbs passes the pattern as it was given.                *)
(***************************************************************************)
C4_FiltersAreBuiltFromParsedPattern ==
    /\ \A c \in {"ListIndexes", "ListAllDbs", "ListPrivilegeSummaries", "ShowStats"} :
          Ran1(c) /\ PrimaryCapability[c] \notin caps => queries = << >>
    /\ call.cmd \in {"ListIndexes", "ListPrivilegeSummaries"} =>
          \A i \in DOMAIN queries :
             queries[i].filter.Schema = PatternSchema /\ queries[i].filter.Name = PatternName
    /\ call.cmd = "ShowStats" =>
          \A i \in DOMAIN queries :
             /\ queries[i].filter.Schema = PatternSchema
             /\ queries[i].reader = "Tables" => queries[i].filter.Name = PatternName
             /\ queries[i].reader = "ColumnStats" => queries[i].filter.Parent = PatternName
    /\ Ran1("ListAllDbs") =>
          \A i \in DOMAIN queries :
             \/ queries[i].filter.Name = PatternReplaced
             \/ queries[i].filter.Schema = PatternSchema /\ queries[i].filter.Name = PatternName

(***************************************************************************)
(* C5: a top-level command whose primary capability the reader does not    *)
(* implement returns the "not supported by driver" error and makes no      *)
(* reader call.                                                            *)
(***************************************************************************)
C5_MissingPrimaryCapability ==
    \A c \in DOMAIN PrimaryCapability :
       Ran1(c) /\ PrimaryCapability[c] \notin caps =>
          ret = <<"not supported by driver">> /\ queries = << >>

\* ShowStats with a reader that has tables but no column statistics.
C5_Witness ==
    /\ call.cmd = "ShowStats"
    /\ "ColumnStatReader" \notin caps
    /\ "TableReader" \in caps
    /\ ret = <<"not supported by driver">>
    /\ queries = << >>

(***************************************************************************)
(* C6: without showSystem no row of a system schema is rendered or counted *)
(* by ListSchemas, ListTables, ListIndexes, DescribeFunctions, List-        *)
(* PrivilegeSummaries or the table and index listings of DescribeTable-    *)
(* Details, whatever the reader returns; with showSystem every row the     *)
(* reader returns is kept.                                                 *)
(***************************************************************************)
FilteringLists ==
    {"ListSchemas", "ListTables", "ListIndexes", "DescribeFunctions", "ListPrivilegeSummaries"}

C6_SystemRowsLeftOut ==
    /\ call.cmd \in FilteringLists /\ ~call.showSystem =>
          /\ \A i \in Tables(out) : NonSystemRows(out[i].rows) = DOMAIN out[i].rows
          /\ ret = Nil /\ queries # << >> =>
                RenderedCount = Cardinality(NonSystemRows(queries[1].rows))
    /\ call.cmd \in FilteringLists /\ call.showSystem /\ ret = Nil /\ queries # << >> =>
          RenderedCount = Len(queries[1].rows)
    /\ call.cmd = "DescribeTableDetails" /\ ~call.showSystem =>
          /\ \A i \in Tables(out) :
                out[i].title # "Sequence" => ~IsSystemSchema(out[i].name[1])
          /\ \A i \in DOMAIN queries :
                queries[i].by \in {"describeTableDetails", "describeIndex"} =>
                   ~IsSystemSchema(queries[i].filter.Schema)
          /\ found <= Matched("Tables") + Matched("Sequences") + Matched("Indexes")
    /\ call.cmd = "DescribeTableDetails" /\ call.showSystem /\ ret = Nil =>
          /\ Cardinality({i \in DOMAIN queries : queries[i].by = "describeTableDetails"})
                = IF Listings("Tables") = {} THEN 0
                  ELSE Len(queries[CHOOSE i \in Listings("Tables") : TRUE].rows)
          /\ Cardinality({i \in DOMAIN queries : queries[i].by = "describeIndex"})
                = IF Listings("Indexes") = {} THEN 0
                  ELSE Len(queries[CHOOSE i \in Listings("Indexes") : TRUE].rows)

\* ListIndexes without showSystem: the reader returns the index of a system
\* schema and another one, and only the other one is rendered.
C6_Witness ==
    /\ call.cmd = "ListIndexes"
    /\ ~call.showSystem
    /\ ret = Nil
    /\ queries # << >>
    /\ Len(queries[1].rows) = 2
    /\ \E i \in DOMAIN queries[1].rows : IsSystemSchema(queries[1].rows[i].Schema)
    /\ RenderedCount = 1

(***************************************************************************)
(* C7: with showSystem the SchemaReader answers with every schema of the   *)
(* source, each once and nothing else, and ListSchemas hands the encoder   *)
(* exactly the rows the reader returned.                                   *)
(***************************************************************************)
C7_AllSchemasListedOnce ==
    call.cmd = "ListSchemas" /\ call.showSystem /\ ret = Nil =>
        /\ Len(queries) = 1
        /\ Len(out) = 1
        /\ out[1].kind = "table"
        /\ out[1].rows = queries[1].rows
        /\ NoDup(out[1].rows)
        /\ {out[1].rows[i] : i \in DOMAIN out[1].rows} = call.source

\* The source holds a system schema and another one, and both are rendered.
C7_Witness ==
    /\ call.cmd = "ListSchemas"
    /\ call.showSystem
    /\ ret = Nil
    /\ Cardinality(call.source) = 2
    /\ \E s \in call.source : IsSystemSchema(s.Schema)
    /\ Len(out) = 1
    /\ Len(out[1].rows) = 2

(***************************************************************************)
(* C8: the Types ListTables asks the TableReader for are exactly the type  *)
(* strings of the codes of w.tableTypes that occur in tableTypes: no type  *)
(* of an absent code, and nothing for a code without an entry.             *)
(***************************************************************************)
C8_TypesOfTheCodesPresent ==
    call.cmd = "ListTables" /\ queries # << >> =>
        LET types == queries[1].filter.Types
        IN  /\ {types[i] : i \in DOMAIN types}
                 = UNION {{TableTypes[k][i] : i \in DOMAIN TableTypes[k]} :
                             k \in {c \in DOMAIN TableTypes : ContainsRune(call.types, c)}}
            /\ NoDup(types)

\* tableTypes is "sm": 's' has an entry, 'm' has none.
C8_Witness ==
    /\ call.cmd = "ListTables"
    /\ call.types = <<"s", "m">>
    /\ queries # << >>
    /\ queries[1].filter.Types = <<"SEQUENCE">>

(***************************************************************************)
(* C9: when ListTables, ListIndexes or ShowStats has a result of no rows   *)
(* after filtering, it writes the "relation not found" message for the     *)
(* pattern, hands nothing to the encoder and returns nil; with a row or    *)
(* more the message is not written.                                        *)
(***************************************************************************)
ResultReader == [ListTables |-> "Tables", ListIndexes |-> "Indexes", ShowStats |-> "ColumnStats"]

\* The number of rows of the result of the command, after its filter (ShowStats
\* installs none).
ResultCount ==
    LET q == queries[Len(queries)]
    IN  IF call.cmd = "ShowStats" \/ call.showSystem THEN Len(q.rows)
        ELSE Cardinality(NonSystemRows(q.rows))

C9_EmptyResultIsAMessage ==
    /\ call.cmd \in DOMAIN ResultReader
    /\ queries # << >>
    /\ queries[Len(queries)].reader = ResultReader[call.cmd]
    /\ queries[Len(queries)].err = "nil"
    => /\ ResultCount = 0 =>
             /\ Len(out) = 1
             /\ IsRelationNotFound(out[1])
             /\ ret = Nil
       /\ ResultCount > 0 => Messages(out) = {}

\* ListTables without showSystem: the reader returns a table, of a system
\* schema, and the message is written.
C9_Witness ==
    /\ call.cmd = "ListTables"
    /\ ~call.showSystem
    /\ queries # << >>
    /\ queries[1].err = "nil"
    /\ Len(queries[1].rows) > 0
    /\ Len(out) = 1
    /\ IsRelationNotFound(out[1])
    /\ ret = Nil

(***************************************************************************)
(* C10: when DescribeTableDetails returns nil, found is the number of      *)
(* matched tables plus matched sequences plus matched indexes, and the     *)
(* "relation not found" message is written once if that sum is 0 and not   *)
(* at all otherwise; a reader with none of the capabilities gets the       *)
(* message and nil.                                                        *)
(***************************************************************************)
C10_FoundIsTheSumOfMatches ==
    call.cmd = "DescribeTableDetails" =>
        /\ ret = Nil =>
              /\ found = Matched("Tables") + Matched("Sequences") + Matched("Indexes")
              /\ \A i \in Messages(out) : IsRelationNotFound(out[i])
              /\ Cardinality(Messages(out)) = IF found = 0 THEN 1 ELSE 0
        /\ caps \cap DescribeCaps = {} =>
              ret = Nil /\ found = 0 /\ Len(out) = 1 /\ IsRelationNotFound(out[1])

\* A table, a sequence and an index matched, and no message is written.
C10_Witness ==
    /\ call.cmd = "DescribeTableDetails"
    /\ ret = Nil
    /\ Matched("Tables") > 0
    /\ Matched("Sequences") > 0
    /\ Matched("Indexes") > 0
    /\ found = Matched("Tables") + Matched("Sequences") + Matched("Indexes")
    /\ Messages(out) = {}

(***************************************************************************)
(* C11: the summary sections written for a table come in the order         *)
(* Indexes, Check constraints, Foreign-key constraints, Referenced by,     *)
(* Triggers: nothing of a section is written before anything of a section  *)
(* that precedes it, and a section's header is written at most once per    *)
(* table, before the lines of the section.                                 *)
(***************************************************************************)
SectionOrder ==
    <<"Indexes:", "Check constraints:", "Foreign-key constraints:", "Referenced by:",
      "Triggers:">>

Sections == {SectionOrder[i] : i \in DOMAIN SectionOrder}

SectionRank(label) == CHOOSE i \in DOMAIN SectionOrder : SectionOrder[i] = label

\* What is written at i belongs to a summary section.
InSummary(i) == out[i].kind \in {"header", "line"} /\ out[i].section \in Sections

\* No other relation's report starts between what is written at i and at j.
SameReport(i, j) == \A k \in (i + 1)..j : out[k].kind # "table"

C11_SectionsInFixedOrder ==
    call.cmd = "DescribeTableDetails" =>
        /\ \A i, j \in DOMAIN out :
              i < j /\ InSummary(i) /\ InSummary(j) /\ SameReport(i, j) =>
                 IF out[j].kind = "header"
                 THEN SectionRank(out[i].section) < SectionRank(out[j].section)
                 ELSE SectionRank(out[i].section) <= SectionRank(out[j].section)
        /\ \A j \in DOMAIN out :
              InSummary(j) /\ out[j].kind = "line" =>
                 \E i \in 1..(j - 1) :
                    /\ out[i].kind = "header"
                    /\ out[i].section = out[j].section
                    /\ SameReport(i, j)

\* The headers written, in the order they were written.
HeadersWritten ==
    LET IsHeader(e) == e.kind = "header"
        hs == SelectSeq(out, IsHeader)
    IN  [i \in DOMAIN hs |-> hs[i].section]

\* A table with all five sections.
C11_Witness ==
    /\ call.cmd = "DescribeTableDetails"
    /\ ret = Nil
    /\ Len(HeadersWritten) >= 5
    /\ SubSeq(HeadersWritten, 1, 5) = SectionOrder

(***************************************************************************)
(* C12: with a reader that implements only TableReader and ColumnReader,   *)
(* DescribeTableDetails on a pattern that matches a table returns nil,     *)
(* makes no Indexes, Constraints, Triggers or Sequences call, and the      *)
(* report of the table has its columns and no summary section header.      *)
(***************************************************************************)
C12_OnlyTheColumnBody ==
    call.cmd = "DescribeTableDetails" /\ caps = {"TableReader", "ColumnReader"} =>
        /\ ret = Nil
        /\ \A i \in DOMAIN queries : queries[i].reader \in {"Tables", "Columns"}
        /\ \A i \in DOMAIN out : out[i].kind \notin {"header", "line"}
        /\ Matched("Tables") > 0 =>
              /\ Len(out) = Matched("Tables")
              /\ \A i \in DOMAIN out :
                    /\ out[i].kind = "table"
                    /\ out[i].rows # << >>
                    /\ out[i].rows = queries[i + 1].rows

\* The table t1, which has an index, constraints and a trigger in the source.
C12_Witness ==
    /\ call.cmd = "DescribeTableDetails"
    /\ caps = {"TableReader", "ColumnReader"}
    /\ ret = Nil
    /\ Len(out) = 1
    /\ out[1].kind = "table"
    /\ out[1].name = <<Public, <<"t1">>>>
    /\ Len(out[1].rows) = 2

(***************************************************************************)
(* C13: when the query behind one of the five summary sections of a table  *)
(* fails with an error other than text.ErrNotSupported, DescribeTable-     *)
(* Details returns an error and no later section of the table is queried.  *)
(* The error of the "Referenced by:" query is dropped.                     *)
(***************************************************************************)
SummaryQueries ==
    {i \in DOMAIN queries :
        queries[i].by \in {"describeTableIndexes", "describeTableConstraints",
                           "describeTableTriggers"}}

C13_SectionErrorAborts ==
    call.cmd = "DescribeTableDetails" =>
        \A i \in SummaryQueries :
           queries[i].err = "err" => ret # Nil /\ i = Len(queries)

(***************************************************************************)
(* C14: in the summary of a table, text.ErrNotSupported from the Indexes,  *)
(* Constraints or Triggers query leaves out that section only: no header   *)
(* of it, no error, and the other sections are queried and written as they *)
(* are when the query answers (in a call that returns nil when it does).   *)
(***************************************************************************)
\* The rows a listing of DescribeTableDetails got from the reader.
ListingRows(reader) ==
    IF Listings(reader) = {} THEN << >>
    ELSE queries[CHOOSE i \in Listings(reader) : TRUE].rows

\* The same call, on the same reader answers, when no call fails.
Unfailing ==
    DescribeTableDetailsRun(caps, systemSchemas, call.pattern, call.verbose, call.showSystem,
                            ListingRows("Tables"), ListingRows("Sequences"),
                            ListingRows("Indexes"), NoFault)

NotSupported(i) == queries[i].err = "ns"

\* The Constraints queries of the "Check constraints:" and "Foreign-key
\* constraints:" sections, which come in this order for each table.
ByParent == {i \in SummaryQueries : queries[i].reader = "Constraints"
                                      /\ queries[i].filter.Reference = << >>}

\* The sections whose query answered text.ErrNotSupported.
Unsupported ==
    {"Indexes:" : i \in {j \in SummaryQueries :
                           queries[j].by = "describeTableIndexes" /\ NotSupported(j)}}
    \cup {"Triggers:" : i \in {j \in SummaryQueries :
                           queries[j].by = "describeTableTriggers" /\ NotSupported(j)}}
    \cup {"Referenced by:" : i \in {j \in SummaryQueries :
                           /\ queries[j].reader = "Constraints"
                           /\ queries[j].filter.Reference # << >>
                           /\ NotSupported(j)}}
    \cup {IF NotSupported(Minimum(ByParent)) THEN "Check constraints:"
          ELSE "Foreign-key constraints:" : i \in {j \in ByParent : NotSupported(j)}}

\* What is written, but for the sections in S.
Without(o, S) ==
    LET Kept(e) == ~(e.kind \in {"header", "line"} /\ e.section \in S)
    IN  SelectSeq(o, Kept)

\* The summary queries made: who made them, with which Filter.
Asked(qs) ==
    LET Summary(q) == q.by \in {"describeTableIndexes", "describeTableConstraints",
                                "describeTableTriggers"}
        sq == SelectSeq(qs, Summary)
    IN  [i \in DOMAIN sq |-> <<sq[i].by, sq[i].filter>>]

C14_NotSupportedOmitsOneSection ==
    call.cmd = "DescribeTableDetails" /\ Unsupported # {} /\ Unfailing.ret = Nil =>
        /\ ret = Nil
        /\ out = Without(Unfailing.out, Unsupported)
        /\ Asked(queries) = Asked(Unfailing.queries)
        /\ found = Unfailing.found

\* The Indexes query of the summary of t1 is not supported, and the four
\* other sections are written.
C14_Witness ==
    /\ call.cmd = "DescribeTableDetails"
    /\ Unsupported = {"Indexes:"}
    /\ ret = Nil
    /\ HeadersWritten = Tail(SectionOrder)

(***************************************************************************)
(* C15: in DescribeTableDetails a listing query of the TableReader, the    *)
(* SequenceReader or the IndexReader that answers text.ErrNotSupported is  *)
(* treated as the interface being absent: the step is skipped, the other   *)
(* steps run, and output and result are those of the call without the      *)
(* step.  For the TableReader the code returns the error.                  *)
(***************************************************************************)
\* The listings that answered text.ErrNotSupported.
UnsupportedListings ==
    {r \in {"Tables", "Sequences", "Indexes"} :
        \E i \in Listings(r) : NotSupported(i)}

\* The listing steps the capabilities of the reader allow.
ListingSteps ==
    {r \in {"Tables", "Sequences", "Indexes"} :
        CASE r = "Tables" -> {"TableReader", "ColumnReader"} \subseteq caps
          [] r = "Sequences" -> "SequenceReader" \in caps
          [] r = "Indexes" -> {"IndexReader", "IndexColumnReader"} \subseteq caps}

C15_NotSupportedListingIsSkipped ==
    call.cmd = "DescribeTableDetails" /\ UnsupportedListings # {} /\ Unfailing.ret = Nil =>
        /\ ret = Nil
        /\ \A r \in ListingSteps : Listings(r) # {}
        /\ out = Unfailing.out
        /\ found = Unfailing.found

(***************************************************************************)
(* C16: with a FunctionColumnReader, DescribeFunctions iterates the        *)
(* functions once to fill in the argument types and then resets the        *)
(* ResultSet, so that the encoder gets every row that passes the filter,   *)
(* once, from the first on, with its argument types, and Functions is      *)
(* called once; without a FunctionColumnReader there is no first pass and  *)
(* no FunctionColumns call.                                                *)
(***************************************************************************)
\* The rows of a reader's answer that pass the filter of the call.
Kept(rows) ==
    LET Pass(r) == call.showSystem \/ ~IsSystemSchema(r.Schema)
    IN  SelectSeq(rows, Pass)

CallsOf(reader) == {i \in DOMAIN queries : queries[i].reader = reader}

C16_RenderedAfterReset ==
    call.cmd = "DescribeFunctions" /\ ret = Nil =>
        /\ Cardinality(CallsOf("Functions")) = 1
        /\ Len(out) = 1
        /\ out[1].kind = "table"
        /\ Len(out[1].rows) = Len(Kept(queries[1].rows))
        /\ \A j \in DOMAIN out[1].rows :
              [out[1].rows[j] EXCEPT !.ArgTypes = << >>] = Kept(queries[1].rows)[j]
        /\ IF "FunctionColumnReader" \in caps
           THEN /\ Cardinality(CallsOf("FunctionColumns")) = Len(out[1].rows)
                /\ \A j \in DOMAIN out[1].rows : out[1].rows[j].ArgTypes # << >>
           ELSE /\ CallsOf("FunctionColumns") = {}
                /\ \A j \in DOMAIN out[1].rows : out[1].rows[j].ArgTypes = << >>

\* Two functions, one of a system schema, with showSystem: both are rendered
\* with their argument types.
C16_Witness ==
    /\ call.cmd = "DescribeFunctions"
    /\ ret = Nil
    /\ call.showSystem
    /\ "FunctionColumnReader" \in caps
    /\ Len(out) = 1
    /\ Len(out[1].rows) = 2
    /\ \A j \in 1..2 : out[1].rows[j].ArgTypes # << >>
    /\ Cardinality(CallsOf("Functions")) = 1

(***************************************************************************)
(* C17: the argument types of a function come from exactly one             *)
(* FunctionColumns call for it, filtered by its catalog, schema and        *)
(* specific name, and hold one entry per returned row whose ordinal        *)
(* position is not 0, in the order of the rows, joined by ", ".            *)
(***************************************************************************)
\* The pieces of a non-empty text between its separators.
RECURSIVE Pieces(_, _)
Pieces(s, sep) ==
    IF \A i \in DOMAIN s : s[i] # sep THEN <<s>>
    ELSE LET i == Minimum({j \in DOMAIN s : s[j] = sep})
         IN  <<SubSeq(s, 1, i - 1)>> \o Pieces(SubSeq(s, i + 1, Len(s)), sep)

\* The entries of an argument list; the empty list has none.
ArgEntries(s) == IF s = << >> THEN << >> ELSE Pieces(s, ", ")

\* The rows of a FunctionColumns answer that are parameters.
Parameters(rows) ==
    LET IsParameter(c) == c.OrdinalPosition # 0
    IN  SelectSeq(rows, IsParameter)

\* The FunctionColumns calls made for the function f.
ColumnCallsFor(f) ==
    {i \in CallsOf("FunctionColumns") :
        queries[i].filter = [EmptyFilter EXCEPT !.Catalog = f.Catalog, !.Schema = f.Schema,
                                                !.Parent = f.SpecificName]}

\* The entry is the one of the parameter: it ends with the data type and has
\* the name when there is one.
EntryOf(e, c) ==
    /\ e # << >>
    /\ e[Len(e)] = c.DataType
    /\ c.Name # "" => \E i \in DOMAIN e : e[i] = c.Name

C17_ArgTypesFromOneQuery ==
    call.cmd = "DescribeFunctions" /\ ret = Nil /\ "FunctionColumnReader" \in caps =>
        /\ \A i \in CallsOf("FunctionColumns") :
              \E j \in DOMAIN out[1].rows : i \in ColumnCallsFor(out[1].rows[j])
        /\ \A j \in DOMAIN out[1].rows :
              /\ Cardinality(ColumnCallsFor(out[1].rows[j])) = 1
              /\ LET q == queries[CHOOSE i \in ColumnCallsFor(out[1].rows[j]) : TRUE]
                     es == ArgEntries(out[1].rows[j].ArgTypes)
                 IN  /\ Len(es) = Len(Parameters(q.rows))
                     /\ \A k \in DOMAIN es : EntryOf(es[k], Parameters(q.rows)[k])

\* public.f1 has a result row and three parameters.
C17_Witness ==
    /\ call.cmd = "DescribeFunctions"
    /\ ret = Nil
    /\ \E j \in DOMAIN out[1].rows :
          /\ out[1].rows[j].SpecificName = <<"f1_1">>
          /\ out[1].rows[j].ArgTypes
                = <<"a", " ", "int", ", ", "OUT", " ", "b", " ", "text", ", ", "date">>
          /\ Cardinality(ColumnCallsFor(out[1].rows[j])) = 1

(***************************************************************************)
(* C18: a function argument is its mode, name and data type joined by      *)
(* single spaces with the empty ones dropped, the mode being dropped when  *)
(* it is "IN" or empty: no leading, trailing or doubled space, whichever   *)
(* fields are empty.  The code leaves a trailing space when the data type  *)
(* is empty and the mode or the name is not.                               *)
(***************************************************************************)
\* The fragments of a parameter that are not dropped, joined by spaces.
SpaceJoined(c) ==
    LET NonEmpty(w) == w # ""
        frags == SelectSeq(<<IF c.Type = "IN" THEN "" ELSE c.Type, c.Name, c.DataType>>,
                           NonEmpty)
    IN  Join([i \in DOMAIN frags |-> <<frags[i]>>], " ")

C18_ArgumentsSpaceJoined ==
    call.cmd = "getFunctionColumns" /\ ret = Nil =>
        LET params == Parameters(queries[1].rows)
        IN  parsed = Join([k \in DOMAIN params |-> SpaceJoined(params[k])], ", ")

(***************************************************************************)
(* C19: the distinct fraction ShowStats renders for a column is 0 when the *)
(* row count of the table is 0, 1.0 when the row count is not 0 and        *)
(* numDistinct equals it, and numDistinct / rows otherwise, to 4 decimal   *)
(* places (25 of 100 gives "0.2500").  The code renders 1.0000 when the    *)
(* row count is 0.                                                         *)
(***************************************************************************)
\* The row count ShowStats took from the TableReader: that of the first
\* table, 0 when it asked for none or got none.
TableRowCount ==
    IF \E i \in CallsOf("Tables") : queries[i].rows # << >>
    THEN queries[CHOOSE i \in CallsOf("Tables") : TRUE].rows[1].Rows
    ELSE 0

\* The fraction of the claim, in ten-thousandths, rounded to the nearest.
DistinctFraction(numDistinct, rows) ==
    IF rows = 0 THEN 0
    ELSE IF numDistinct = rows THEN 10000
    ELSE (2 * 10000 * numDistinct + rows) \div (2 * rows)

C19_DistinctFraction ==
    call.cmd = "ShowStats" /\ ret = Nil /\ Tables(out) # {} =>
        \A j \in DOMAIN out[1].rows :
           out[1].rows[j].DistFrac
              = DistinctFraction(out[1].rows[j].NumDistinct, TableRowCount)

(***************************************************************************)
(* C20: in verbose ShowStats, for a limit k >= 0 and a column whose top-N  *)
(* values and frequencies are lists of the same length L, the first        *)
(* min(k, L) values and the first min(k, L) frequencies are rendered, in   *)
(* their order, and nothing more.                                          *)
(***************************************************************************)
C20_TopNCutToLimit ==
    call.cmd = "ShowStats" /\ call.verbose /\ call.k >= 0 /\ ret = Nil /\ Tables(out) # {} =>
        LET stats == queries[Len(queries)].rows
        IN  /\ Len(out[1].rows) = Len(stats)
            /\ \A j \in DOMAIN stats :
                  Len(stats[j].TopN) = Len(stats[j].TopNFreqs) =>
                     LET L == Len(stats[j].TopN)
                         n == IF call.k < L THEN call.k ELSE L
                     IN  /\ out[1].rows[j].TopN = SubSeq(stats[j].TopN, 1, n)
                         /\ out[1].rows[j].TopNFreqs = SubSeq(stats[j].TopNFreqs, 1, n)

\* A limit of 2 and a column with three top values.
C20_Witness ==
    /\ call.cmd = "ShowStats"
    /\ call.verbose
    /\ call.k = 2
    /\ ret = Nil
    /\ Tables(out) # {}
    /\ \E j \in DOMAIN out[1].rows :
          /\ Len(queries[Len(queries)].rows[j].TopN) = 3
          /\ out[1].rows[j].TopN = <<"x", "y">>
          /\ out[1].rows[j].TopNFreqs = <<5000, 2500>>

(***************************************************************************)
(* C21: ShowStats takes the row count from the TableReader when the reader *)
(* implements it and uses 0 when the row count is unavailable (no          *)
(* TableReader, no table matches, the Tables query delivers no table       *)
(* entry); an unavailable row count never prevents the column statistics   *)
(* from being queried and rendered.  The code returns the error of the     *)
(* Tables query before it asks for the statistics.                         *)
(***************************************************************************)
\* The Tables query delivered a table entry.
RowCountAvailable == \E i \in CallsOf("Tables") : queries[i].rows # << >>

\* The rendered rows are those of the statistics for a table of r rows.
RenderedWithRowCount(r) ==
    LET stats == queries[Len(queries)].rows
    IN  /\ Len(out[1].rows) = Len(stats)
        /\ \A j \in DOMAIN stats :
              out[1].rows[j].DistFrac
                 = IF r # 0 /\ stats[j].NumDistinct # r
                   THEN Format4(stats[j].NumDistinct, r)
                   ELSE Format4(1, 1)

C21_RowCountDefaultsToZero ==
    call.cmd = "ShowStats" /\ "ColumnStatReader" \in caps =>
        /\ "TableReader" \notin caps => CallsOf("Tables") = {}
        /\ "TableReader" \in caps => Cardinality(CallsOf("Tables")) = 1
        /\ ~RowCountAvailable =>
              /\ CallsOf("ColumnStats") # {}
              /\ ret = Nil /\ Tables(out) # {} => RenderedWithRowCount(0)
        /\ RowCountAvailable /\ ret = Nil /\ Tables(out) # {} =>
              RenderedWithRowCount(TableRowCount)

(***************************************************************************)
(* C22: every ResultSet a command obtains from the reader is closed by the *)
(* time the command returns, whatever the path it returns on; the per-     *)
(* function FunctionColumns, per-index IndexColumns and per-constraint     *)
(* ConstraintColumns results included.  getFunctionColumns,                *)
(* getIndexColumns and getConstraintColumns never close theirs.            *)
(***************************************************************************)
\* The reader calls that handed the command a ResultSet.
Obtained == {i \in DOMAIN queries : queries[i].err = "nil"}

C22_EveryResultSetIsClosed ==
    ret # NoRet => \A i \in Obtained : queries[i].closed

(***************************************************************************)
(* C23: Writers share no mutable state.  When the function NewIngresWriter *)
(* returned is called twice with different (db, sink) pairs, each Writer   *)
(* keeps its own db and sink, and a command run on the first Writer after  *)
(* the second was created writes to the first sink.  The function returns  *)
(* the one IngresWriter it was built around, after overwriting its fields. *)
(***************************************************************************)
C23_WritersKeepTheirSink ==
    /\ \A n \in DOMAIN writers :
          /\ Deref(writers[n].ptr).db = writers[n].db
          /\ Deref(writers[n].ptr).w = writers[n].w
    /\ \A s \in Sinks :
          \A i \in DOMAIN sinks[s] : writers[sinks[s][i].writer].w = s

(***************************************************************************)
(* C24: the "Foreign-key constraints:" section of a table comes from a     *)
(* Constraints query with the table as Parent, the "Referenced by:"        *)
(* section from one with the table as Reference; both render only the      *)
(* constraints of type FOREIGN KEY, in the reader's order; the header of a *)
(* section is written only if a constraint passes; and each constraint     *)
(* rendered has one ConstraintColumns query of its own, with the catalog,  *)
(* schema, table and name of the constraint.                               *)
(***************************************************************************)
\* The Constraints queries, and for each the Columns query of the table
\* whose summary made it.
ConstraintQueries == {i \in CallsOf("Constraints") : queries[i].by = "describeTableConstraints"}

ColumnsQueryOf(i) ==
    CHOOSE c \in CallsOf("Columns") :
       c < i /\ \A d \in CallsOf("Columns") : d < i => d <= c

\* The section of a Constraints query: the summary makes them in the order
\* check constraints, foreign keys, referenced by.
SectionOf(i) ==
    LET earlier == {k \in ConstraintQueries : k <= i /\ ColumnsQueryOf(k) = ColumnsQueryOf(i)}
    IN  <<"Check constraints:", "Foreign-key constraints:", "Referenced by:">>[Cardinality(earlier)]

ForeignKeys(rows) ==
    LET IsForeignKey(c) == c.Type = "FOREIGN KEY"
    IN  SelectSeq(rows, IsForeignKey)

\* Where the report of the table of Columns query c starts in the output, and
\* what of a section is in that report.
ReportOf(j) == CHOOSE r \in 1..j : out[r].kind = "table" /\ \A k \in (r + 1)..j : out[k].kind # "table"

InReport(c, label, kind) ==
    {j \in DOMAIN out :
        /\ out[j].kind = kind
        /\ out[j].section = label
        /\ out[ReportOf(j)].name = <<queries[c].filter.Schema, queries[c].filter.Parent>>}

\* The lines of the foreign-key sections and the ConstraintColumns queries.
KeyLines ==
    LET IsKeyLine(e) == e.kind = "line"
                        /\ e.section \in {"Foreign-key constraints:", "Referenced by:"}
    IN  SelectSeq(out, IsKeyLine)

ColumnQueries ==
    LET IsColumnQuery(q) == q.reader = "ConstraintColumns"
    IN  SelectSeq(queries, IsColumnQuery)

C24_ForeignKeySections ==
    call.cmd = "DescribeTableDetails" =>
        /\ \A i \in ConstraintQueries :
              LET c == ColumnsQueryOf(i)
                  tp == queries[c].filter.Parent
                  label == SectionOf(i)
                  fks == ForeignKeys(queries[i].rows)
                  lines == InReport(c, label, "line")
                  headers == InReport(c, label, "header")
              IN  /\ queries[i].filter.Schema = queries[c].filter.Schema
                  /\ label = "Referenced by:" =>
                        queries[i].filter.Reference = tp /\ queries[i].filter.Parent = << >>
                  /\ label # "Referenced by:" =>
                        queries[i].filter.Parent = tp /\ queries[i].filter.Reference = << >>
                  /\ label # "Check constraints:" =>
                        /\ Cardinality(lines) <= Len(fks)
                        /\ ret = Nil => Cardinality(lines) = Len(fks)
                        /\ \A j \in lines :
                              out[j].name = fks[Cardinality({k \in lines : k <= j})].Name
                        /\ headers # {} => fks # << >>
                        /\ ret = Nil /\ fks # << >> => Cardinality(headers) = 1
        /\ Len(ColumnQueries) \in {Len(KeyLines), Len(KeyLines) + 1}
        /\ ret = Nil => Len(ColumnQueries) = Len(KeyLines)
        /\ \A n \in DOMAIN KeyLines :
              \E i \in ConstraintQueries :
                 \E m \in DOMAIN queries[i].rows :
                    LET k == queries[i].rows[m]
                    IN  /\ k.Name = KeyLines[n].name
                        /\ k.Type = "FOREIGN KEY"
                        /\ ColumnQueries[n].filter =
                              [EmptyFilter EXCEPT !.Catalog = k.Catalog, !.Schema = k.Schema,
                                                  !.Parent = k.Table, !.Name = k.Name]

\* The report of t1 has both sections: fk1 under "Foreign-key constraints:",
\* fk2 of table t2 under "Referenced by:", and a ConstraintColumns query each.
C24_Witness ==
    /\ call.cmd = "DescribeTableDetails"
    /\ ret = Nil
    /\ Len(KeyLines) = 2
    /\ KeyLines[1].section = "Foreign-key constraints:" /\ KeyLines[1].name = <<"fk1">>
    /\ KeyLines[2].section = "Referenced by:" /\ KeyLines[2].name = <<"fk2">>
    /\ Len(ColumnQueries) = 2
    /\ ColumnQueries[1].filter.Parent = <<"t1">> /\ ColumnQueries[2].filter.Parent = <<"t2">>

(***************************************************************************)
(* C25: what one DescribeTableDetails call that returns nil writes is      *)
(* ordered: first the reports of the matched tables, in the order of the   *)
(* TableReader, each table's column body before its own summary and before *)
(* the next table's report; then one report per matched sequence; then one *)
(* report per matched index; a "relation not found" message is the only    *)
(* thing written when it is written.  An index whose IndexColumns query    *)
(* returns no rows is matched and gets no report (see C28).                *)
(***************************************************************************)
\* The rows the iteration over a listing yields, in the reader's order.
Yielded(reader) ==
    LET Shown(r) == call.showSystem \/ reader = "Sequences" \/ ~IsSystemSchema(r.Schema)
    IN  SelectSeq(ListingRows(reader), Shown)

\* The reports written, in order: what each is a report of.
Reports ==
    LET IsReport(e) == e.kind = "table"
        rs == SelectSeq(out, IsReport)
    IN  [i \in DOMAIN rs |-> <<rs[i].title, rs[i].name>>]

\* The reports the claim has, given the reports it has for the indexes.
ReportsDue(indexes) ==
    [i \in DOMAIN Yielded("Tables") |->
        <<Yielded("Tables")[i].Type, <<Yielded("Tables")[i].Schema, Yielded("Tables")[i].Name>>>>]
    \o [i \in DOMAIN Yielded("Sequences") |->
        <<"Sequence", <<Yielded("Sequences")[i].Schema, Yielded("Sequences")[i].Name>>>>]
    \o [i \in DOMAIN indexes |-> <<"Index", <<indexes[i].Schema, indexes[i].Name>>>>]

\* Every line of a summary follows the column body of a table, every line of
\* an index the columns of that index, and a message stands alone.
AppendixInPlace ==
    /\ \A j \in DOMAIN out :
          out[j].kind \in {"header", "line"} =>
             /\ \E r \in 1..(j - 1) : out[r].kind = "table"
             /\ IF out[j].section = "Index"
                THEN out[ReportOf(j)].title = "Index"
                ELSE out[ReportOf(j)].title \notin {"Sequence", "Index"}
    /\ Messages(out) # {} => Len(out) = 1

C25_ReportsInOrder ==
    call.cmd = "DescribeTableDetails" /\ ret = Nil =>
        /\ Reports = ReportsDue(Yielded("Indexes"))
        /\ AppendixInPlace

(***************************************************************************)
(* C26: when describing one matched table fails in DescribeTableDetails    *)
(* (its Columns query or its report fails), the command returns the error  *)
(* at once: no later table is described, no Sequences or Indexes query is  *)
(* made and no "relation not found" message is written; and likewise for a *)
(* sequence or index step that fails and the steps after it.               *)
(***************************************************************************)
\* The command returned the error of the step with this prefix.
FailedWith(msg) == ret # Nil /\ ret # Panic /\ ret[1] = msg

\* The last reader call made was made by one of these functions.
LastCallBy(fns) == queries # << >> /\ queries[Len(queries)].by \in fns

TableFunctions ==
    {"describeTableDetails", "describeTableIndexes", "getIndexColumns",
     "describeTableConstraints", "getConstraintColumns", "describeTableTriggers"}

C26_FailureEndsTheCommand ==
    call.cmd = "DescribeTableDetails" =>
        /\ \A i \in DOMAIN queries :
              \/ queries[i].by \in {"describeTableDetails", "describeIndex"}
                    /\ queries[i].err # "nil"
              \/ queries[i].by = "describeSequences" /\ queries[i].err = "err"
              \/ queries[i].by = "DescribeTableDetails" /\ queries[i].reader = "Indexes"
                    /\ queries[i].err = "err"
              => i = Len(queries) /\ ret # Nil /\ ret # Panic
        /\ FailedWith("failed to describe") =>
              /\ LastCallBy(TableFunctions)
              /\ Cardinality(CallsOf("Columns")) = found + 1
              /\ \A i \in CallsOf("Columns") :
                    LET t == Yielded("Tables")[Cardinality({k \in CallsOf("Columns") : k <= i})]
                    IN  queries[i].filter.Schema = t.Schema /\ queries[i].filter.Parent = t.Name
              /\ CallsOf("Sequences") = {}
              /\ Listings("Indexes") = {}
              /\ Messages(out) = {}
        /\ FailedWith("failed to describe sequences") =>
              /\ LastCallBy({"describeSequences"})
              /\ Listings("Indexes") = {}
              /\ Messages(out) = {}
        /\ FailedWith("failed to describe index") \/ FailedWith("failed to list indexes for table") =>
              /\ LastCallBy({"DescribeTableDetails", "describeIndex"})
              /\ Messages(out) = {}
        /\ ret # Nil => Messages(out) = {}

\* The Columns query of the first of two matched tables fails, with a reader
\* that has sequences and indexes to list.
C26_Witness ==
    /\ call.cmd = "DescribeTableDetails"
    /\ FailedWith("failed to describe")
    /\ Len(Yielded("Tables")) = 2
    /\ found = 0
    /\ Len(queries) = 2
    /\ queries[2].reader = "Columns" /\ queries[2].err = "err"
    /\ {"SequenceReader", "IndexReader", "IndexColumnReader"} \subseteq caps

(***************************************************************************)
(* C27: the Writer never calls a capability method the reader does not     *)
(* implement: whatever interfaces the reader implements (IndexReader       *)
(* without IndexColumnReader and ConstraintReader without                  *)
(* ConstraintColumnReader included) and whatever the catalog holds,        *)
(* DescribeTableDetails and DescribeFunctions return a value or an error   *)
(* and never end in a failed capability assertion.  getIndexColumns and    *)
(* getConstraintColumns assert their interface without a check.            *)
(***************************************************************************)
\* The interface a reader method belongs to.
CapabilityOf(reader) ==
    CASE reader = "Tables" -> "TableReader"
      [] reader = "Columns" -> "ColumnReader"
      [] reader = "Indexes" -> "IndexReader"
      [] reader = "IndexColumns" -> "IndexColumnReader"
      [] reader = "Constraints" -> "ConstraintReader"
      [] reader = "ConstraintColumns" -> "ConstraintColumnReader"
      [] reader = "Sequences" -> "SequenceReader"
      [] reader = "Triggers" -> "TriggerReader"
      [] reader = "Functions" -> "FunctionReader"
      [] reader = "FunctionColumns" -> "FunctionColumnReader"

C27_NoFailedCapabilityAssertion ==
    call.cmd \in {"DescribeTableDetails", "DescribeFunctions"} =>
        /\ \A i \in DOMAIN queries : CapabilityOf(queries[i].reader) \in caps
        /\ ret # Panic

(***************************************************************************)
(* C28: every DescribeTableDetails call that returns nil has written       *)
(* something for the pattern: a report of a table, sequence or index, or   *)
(* the "relation not found" message; and every index counted in found has  *)
(* a report, also when its IndexColumns query returns no rows.             *)
(* describeIndex returns nil without writing when the result is empty, and *)
(* the index is counted.                                                   *)
(***************************************************************************)
\* The index has a report of its own in the output.
IndexReported(i) ==
    \E j \in Tables(out) : out[j].title = "Index" /\ out[j].name = <<i.Schema, i.Name>>

C28_SomethingIsWritten ==
    call.cmd = "DescribeTableDetails" /\ ret = Nil =>
        /\ Tables(out) # {} \/ Messages(out) # {}
        /\ \A n \in DOMAIN Yielded("Indexes") : IndexReported(Yielded("Indexes")[n])

(***************************************************************************)
(* C29: in ShowStats the distinct fraction of every rendered column is     *)
(* computed against the row count of the table the column belongs to: when *)
(* the pattern matches several tables with different row counts, each      *)
(* column uses the row count of its own table.  The code takes the row     *)
(* count of the first table the TableReader returned for every column.     *)
(***************************************************************************)
\* The distinct fraction of a column with nd distinct values in r rows, as
\* it is rendered.
FractionAgainst(nd, r) == IF r # 0 /\ nd # r THEN Format4(nd, r) ELSE Format4(1, 1)

\* The entries of the Tables answer for the table of a column.
TableEntries(f) ==
    {t \in UNION {{queries[i].rows[n] : n \in DOMAIN queries[i].rows} : i \in CallsOf("Tables")} :
        t.Schema = f.Schema /\ t.Name = f.Table}

C29_FractionAgainstOwnTable ==
    call.cmd = "ShowStats" /\ ret = Nil /\ Tables(out) # {} =>
        LET stats == queries[Len(queries)].rows
        IN  \A j \in DOMAIN stats :
               \A t \in TableEntries(stats[j]) :
                  out[1].rows[j].DistFrac = FractionAgainst(stats[j].NumDistinct, t.Rows)

====
